---- MODULE Spec2Model ----
(***************************************************************************)
(* gork-bot: the per-user rate limiter (user_manager.py), the message      *)
(* pipeline that it gates (bot.py, response_handling.py) and the           *)
(* post-processing of a generated text (ai_service).                       *)
(***************************************************************************)
EXTENDS Integers, Sequences, FiniteSets, TLC

\* ------------------------------------------------------------------ bounds
\* Number of rate-checked messages in one run of the limiter specification.
MaxChecks == 4
\* Largest configured allowed_messages_per_interval.
MaxAllowed == 2
\* Configured timeout_interval_mins.
IntervalMins == 1
\* Configured stream_edit_interval_secs.
StreamEditIntervalSecs == 1
\* Longest generated text over '%', a letter and a space.
MaxTextLen == 7
\* Longest generated text over '%' and a letter.
MaxPercentLen == 10

\* The limit of a history fetch (the code asks for 10 messages).
HistoryLimit == 3

\* Most messages that arrive in a channel between the event and the fetch.
MaxArrivals == 2

\* Longest message content, in tokens.
MaxContentLen == 3

\* Longest message history handed to a request.
MaxMessages == 3

\* ------------------------------------------------------------------ values
\* datetime | None of UserInfo.last_message_time
None == -1

BotUser == "gork"
Admin == "root"
Humans == {"alice", "bob", Admin}

\* Seconds of one interval, as update_message_stats computes it.
IntervalSecs(config) == 60 * config.timeout_interval_mins

\* created_at values: the start of a window, its last second, the first second
\* after it, and the same again for the window that follows.
Instants ==
    LET W == 60 * IntervalMins
    IN  {0, W, W + 1, 2 * W + 1, 2 * W + 2}

VARIABLES
    _bot_config,    \* BotConfig: set at construction, read only afterwards
    _user_info,     \* GorkBot._user_info: user id -> UserInfo
    rate_log,       \* the rate-checked messages in the order they were checked
    pipeline,       \* the entry point in use: GorkBot.handle_response or ResponseHandler
    testing,        \* GorkBot.__testing / ResponseHandler.__testing
    handlers,       \* one record per message handler (a coroutine and its locals)
    response,       \* ai_service Response: the generated text and its media
    history,        \* ParsedMessage.get_history: a channel, a message in it, the list built
    request,        \* ResponseBuilder: the configuration of a request and its outcome
    prompt,         \* ParsedMessage.get_prompt_text: a message and its prompt text
    loaded_config   \* Config: the loaded file, a key and the outcome of get_config_value

\* The state of the calls that are followed on their own.
functions == <<history, request, prompt, loaded_config>>

vars == <<_bot_config, _user_info, rate_log, pipeline, testing, handlers, response, functions>>

\* No such call is followed.
NoCall == [pc |-> "none"]
NoFunctions ==
    /\ history = NoCall
    /\ request = NoCall
    /\ prompt = NoCall
    /\ loaded_config = NoCall

\* ------------------------------------------------------------------ config
BotConfigs ==
    [ admins : {{Admin}},
      channel_whitelist : {{"general"}},
      enable_whitelist : BOOLEAN,
      allowed_messages_per_interval : 0..MaxAllowed,
      timeout_interval_mins : {IntervalMins},
      stream_output : BOOLEAN,
      stream_edit_interval_secs : {StreamEditIntervalSecs} ]

is_admin(config, user) == user \in config.admins

\* ------------------------------------------------------------------ limiter
\* UserInfo.__init__
UserInfo == [messages_in_last_hour |-> 0, last_message_time |-> None]

\* A plausible slip: the boundary second already counts as elapsed.
update_message_stats_ge(info, author, created_at, config) ==
    IF is_admin(config, author)
    THEN [info |-> info, admitted |-> TRUE]
    ELSE LET reset == \/ info.last_message_time = None
                      \/ created_at - info.last_message_time >= IntervalSecs(config)
             new == IF reset
                    THEN [messages_in_last_hour |-> 1, last_message_time |-> created_at]
                    ELSE [info EXCEPT !.messages_in_last_hour = @ + 1]
         IN  [info |-> new,
              admitted |-> new.messages_in_last_hour <= config.allowed_messages_per_interval]

\* A plausible slip: the admin test is made after the counters were updated.
update_message_stats_late_admin(info, author, created_at, config) ==
    LET reset == \/ info.last_message_time = None
                 \/ created_at - info.last_message_time > IntervalSecs(config)
        new == IF reset
               THEN [messages_in_last_hour |-> 1, last_message_time |-> created_at]
               ELSE [info EXCEPT !.messages_in_last_hour = @ + 1]
    IN  [info |-> new,
         admitted |-> \/ is_admin(config, author)
                      \/ new.messages_in_last_hour <= config.allowed_messages_per_interval]

\* A plausible slip: the window start is not moved on a reset.
update_message_stats_keep_start(info, author, created_at, config) ==
    IF is_admin(config, author)
    THEN [info |-> info, admitted |-> TRUE]
    ELSE LET reset == \/ info.last_message_time = None
                      \/ created_at - info.last_message_time > IntervalSecs(config)
             new == IF reset
                    THEN [messages_in_last_hour |-> 1,
                          last_message_time |-> IF info.last_message_time = None
                                                THEN created_at
                                                ELSE info.last_message_time]
                    ELSE [info EXCEPT !.messages_in_last_hour = @ + 1]
         IN  [info |-> new,
              admitted |-> new.messages_in_last_hour <= config.allowed_messages_per_interval]

\* A plausible slip: every message moves the window start (a sliding timeout).
update_message_stats_slide(info, author, created_at, config) ==
    IF is_admin(config, author)
    THEN [info |-> info, admitted |-> TRUE]
    ELSE LET reset == \/ info.last_message_time = None
                      \/ created_at - info.last_message_time > IntervalSecs(config)
             new == IF reset
                    THEN [messages_in_last_hour |-> 1, last_message_time |-> created_at]
                    ELSE [messages_in_last_hour |-> info.messages_in_last_hour + 1,
                          last_message_time |-> created_at]
         IN  [info |-> new,
              admitted |-> new.messages_in_last_hour <= config.allowed_messages_per_interval]

\* A plausible slip: a reset starts the count at 0 instead of 1.
update_message_stats_zero(info, author, created_at, config) ==
    IF is_admin(config, author)
    THEN [info |-> info, admitted |-> TRUE]
    ELSE LET reset == \/ info.last_message_time = None
                      \/ created_at - info.last_message_time > IntervalSecs(config)
             new == IF reset
                    THEN [messages_in_last_hour |-> 0, last_message_time |-> created_at]
                    ELSE [info EXCEPT !.messages_in_last_hour = @ + 1]
         IN  [info |-> new,
              admitted |-> new.messages_in_last_hour <= config.allowed_messages_per_interval]

\* UserInfo.update_message_stats: the new UserInfo and the verdict.
update_message_stats(info, author, created_at, config) ==
    IF is_admin(config, author)
    THEN [info |-> info, admitted |-> TRUE]
    ELSE LET reset == \/ info.last_message_time = None
                      \/ created_at - info.last_message_time > IntervalSecs(config)
             new == IF reset
                    THEN [messages_in_last_hour |-> 1, last_message_time |-> created_at]
                    ELSE [info EXCEPT !.messages_in_last_hour = @ + 1]
         IN  [info |-> new,
              admitted |-> new.messages_in_last_hour <= config.allowed_messages_per_interval]

\* dict[author_id] = value
DictSet(dict, key, value) ==
    [k \in DOMAIN dict \cup {key} |-> IF k = key THEN value ELSE dict[k]]

\* A plausible slip: the membership test fails and the entry is created anew on
\* every message.
rate_limit_check_fresh(user_info, author, created_at, config) ==
    LET with_entry == DictSet(user_info, author, UserInfo)
        r == update_message_stats(with_entry[author], author, created_at, config)
    IN  [user_info |-> DictSet(with_entry, author, r.info), admitted |-> r.admitted]

\* rate_limit_check, up to its first await: the entry of the author is created
\* when it is missing, then update_message_stats runs on it.
rate_limit_check(user_info, author, created_at, config) ==
    LET with_entry == IF author \in DOMAIN user_info
                      THEN user_info
                      ELSE DictSet(user_info, author, UserInfo)
        r == update_message_stats(with_entry[author], author, created_at, config)
    IN  [user_info |-> DictSet(with_entry, author, r.info), admitted |-> r.admitted]

\* ------------------------------------------------------------------ messages
\* message.channel: the channels of the model and their discord ChannelType.
Channels == {"general", "random", "dm", "followup", "private_followup", "offtopic", "voice"}

channel_type(channel) ==
    CASE channel \in {"general", "random"} -> "text"
      [] channel = "dm" -> "private"
      [] channel \in {"followup", "offtopic"} -> "public_thread"
      [] channel = "private_followup" -> "private_thread"
      [] OTHER -> "voice"

\* isinstance(channel, Thread)
is_thread(channel) == channel_type(channel) \in {"public_thread", "private_thread"}

\* Thread.owner
owner(channel) ==
    CASE channel \in {"followup", "private_followup"} -> BotUser
      [] OTHER -> "alice"

\* Thread.me: the bot's membership of the thread
me(channel) == channel \in {"followup", "private_followup"}

\* BotConfig.can_message_channel
can_message_channel(config, channel) ==
    IF config.enable_whitelist THEN channel \in config.channel_whitelist ELSE TRUE

\* message.reference: no reference, or the author of the referenced message.
References == {"none", "bot", "human"}

\* discord Message: the fields the pipeline reads. A mention of the bot matters in
\* text channels only; a reference is the author of the message replied to.
Messages ==
    {m \in [ author : {"alice", "bob", Admin, BotUser},
             created_at : {0},
             channel : Channels,
             mentions_bot : BOOLEAN,
             reference : References ] :
        /\ m.mentions_bot => channel_type(m.channel) = "text"
        /\ m.reference # "none" =>
              m.channel \in {"general", "dm", "followup"} /\ m.author = "alice"
        /\ m.author = Admin => m.channel \in {"general", "dm"}
        /\ m.author = "bob" => m.channel = "dm"
        /\ m.author = BotUser => m.channel \in {"general", "dm", "followup"}}

\* The messages that arrive while another message is being handled.
ConcurrentMessages ==
    {m \in Messages :
        /\ m.author # BotUser
        /\ m.channel \in {"general", "dm"}
        /\ m.reference = "none"}

NoMessage ==
    [author |-> "", created_at |-> 0, channel |-> "", mentions_bot |-> FALSE,
     reference |-> "none"]

\* ------------------------------------------------------------------ handlers
Handlers == {"h1", "h2"}

\* Handlers take their messages in this order.
Earlier(h) == IF h = "h1" THEN {} ELSE {"h1"}

\* The messages a handler is started for.
MessagesOf(h) == IF h = "h1" THEN Messages ELSE ConcurrentMessages

\* A handler before its message arrives. verdict is the limiter's answer for the
\* message; calls lists the platform and generation calls made for it, in order.
\* partial_response is the streamed text: the completion events applied and the
\* deltas added since. events lists the stream events handled, each with the
\* time since last_edit, the text it left in partial_response and the write it
\* caused; failed is the position in calls of a call that raised (0: none).
IdleHandler ==
    [ pc |-> "idle",
      msg |-> NoMessage,
      verdict |-> "unchecked",
      referenced_message |-> "none",
      should_reply |-> FALSE,
      thread |-> FALSE,
      stream |-> <<>>,
      response |-> FALSE,
      now |-> 0,
      last_edit |-> 0,
      partial_response |-> [done |-> 0, deltas |-> 0],
      events |-> <<>>,
      failed |-> 0,
      calls |-> <<>> ]

\* One call on the platform or the generation service, with what it carries (a
\* generation call that raised carries "raised").
Call(s, call, content) ==
    [s EXCEPT !.calls = Append(@, [call |-> call, content |-> content])]

Returned(s) == [s EXCEPT !.pc = "done"]

\* ------------------------------------------------------------------ generation
\* The events of a streamed response: text deltas and the completion event, each
\* with the loop time that passed since the event before it.
Delta(gap) == [type |-> "delta", gap |-> gap]
Done == [type |-> "done", gap |-> 0]

Streams ==
    LET S == StreamEditIntervalSecs
    IN  { <<>>,
          <<Done>>,
          <<Delta(0), Done>>,
          <<Delta(0), Delta(S), Done>>,
          <<Delta(0), Delta(S + 1), Done>> }

\* Longer streams: deltas that are skipped and written, and events that follow
\* the completion event (a response with more than one text part has a
\* completion event for each part).
StreamsWide ==
    LET S == StreamEditIntervalSecs
    IN  Streams \cup
        { <<Delta(0), Delta(0), Delta(S + 1), Done>>,
          <<Delta(0), Delta(S + 1), Delta(S), Delta(1), Done>>,
          <<Delta(0), Done, Delta(S + 1)>>,
          <<Delta(0), Done, Delta(0), Done>>,
          <<Done, Delta(0)>>,
          <<Done, Done>> }

StreamGenerations ==
    {[raises |-> TRUE, stream |-> <<>>]} \cup {[raises |-> FALSE, stream |-> st] : st \in StreamsWide}

\* What a generation call can do: raise, or return the response / the event stream.
Generations(config) ==
    IF config.stream_output
    THEN {[raises |-> TRUE, stream |-> <<>>]} \cup {[raises |-> FALSE, stream |-> st] : st \in Streams}
    ELSE {[raises |-> TRUE, stream |-> <<>>], [raises |-> FALSE, stream |-> <<>>]}

\* ------------------------------------------------------------------ GorkBot (bot.py)
\* GorkBot.send_message
send_message(s, content) ==
    IF s.should_reply /\ ~s.thread THEN Call(s, "reply", content)
    ELSE IF s.thread THEN Call(s, "thread.send", content)
    ELSE Call(s, "channel.send", content)

\* A plausible slip: the except clause logs and re-raises.
on_message_except_reraise(s, config) == [s EXCEPT !.pc = "raised"]

\* on_message's except clause: the generic notice, where the bot may write.
on_message_except(s, config) ==
    IF channel_type(s.msg.channel) = "private" \/ can_message_channel(config, s.msg.channel)
    THEN [Call(s, "reply", "error") EXCEPT !.pc = "sending"]
    ELSE Returned(s)

\* The condition under which GorkBot.create_thread calls message.create_thread.
creates_thread(s) ==
    ~(~(s.referenced_message = "bot") \/ is_thread(s.msg.channel))

\* A plausible slip: the completion event is written under the same throttle as
\* the deltas.
RECURSIVE stream_loop_throttled(_, _)
stream_loop_throttled(s, config) ==
    IF s.stream = <<>> THEN Returned(s)
    ELSE LET chunk == Head(s.stream)
             now == s.now + chunk.gap
             at == [s EXCEPT !.stream = Tail(@), !.now = now]
             content == IF chunk.type = "delta" THEN "partial" ELSE "response"
         IN  IF ~s.response
             THEN [send_message(at, content) EXCEPT
                       !.response = TRUE, !.last_edit = now, !.pc = "streaming"]
             ELSE IF now - s.last_edit > config.stream_edit_interval_secs
             THEN [Call(at, "edit", content) EXCEPT !.last_edit = now, !.pc = "streaming"]
             ELSE stream_loop_throttled(at, config)

\* The text a write carries: the deltas so far ("partial"), the text of the
\* completion event ("response"), the text of a further completion event
\* ("response_2"), or a completion text with later deltas added ("overwritten").
Content(partial_response) ==
    IF partial_response.done = 0 THEN "partial"
    ELSE IF partial_response.deltas > 0 THEN "overwritten"
    ELSE IF partial_response.done = 1 THEN "response"
    ELSE "response_2"

\* The handler after an event of the stream: the text, and the entry of events.
Handled(s, chunk, text, elapsed, write) ==
    [s EXCEPT !.partial_response = text,
              !.events = Append(@, [type |-> chunk.type, elapsed |-> elapsed,
                                    text |-> text, write |-> write])]

\* A plausible slip: the completion text goes out as a message of its own.
RECURSIVE stream_loop_resend(_, _)
stream_loop_resend(s, config) ==
    IF s.stream = <<>> THEN Returned(s)
    ELSE LET chunk == Head(s.stream)
             rest == [s EXCEPT !.stream = Tail(@)]
         IN  IF chunk.type = "delta"
             THEN LET now == s.now + chunk.gap
                      text == [s.partial_response EXCEPT !.deltas = @ + 1]
                      at == [rest EXCEPT !.now = now]
                      elapsed == now - s.last_edit
                  IN  IF ~s.response
                      THEN [send_message(Handled(at, chunk, text, elapsed, "send"), Content(text))
                                EXCEPT !.response = TRUE, !.last_edit = now, !.pc = "streaming"]
                      ELSE IF now - s.last_edit > config.stream_edit_interval_secs
                      THEN [Call(Handled(at, chunk, text, elapsed, "edit"), "edit", Content(text))
                                EXCEPT !.last_edit = now, !.pc = "streaming"]
                      ELSE stream_loop_resend(Handled(at, chunk, text, elapsed, "none"), config)
             ELSE LET text == [done |-> s.partial_response.done + 1, deltas |-> 0]
                      elapsed == s.now - s.last_edit
                  IN  IF ~s.response
                      THEN [send_message(Handled(rest, chunk, text, elapsed, "send"), Content(text))
                                EXCEPT !.response = TRUE, !.pc = "streaming"]
                      ELSE [send_message(Handled(rest, chunk, text, elapsed, "send"), Content(text))
                                EXCEPT !.pc = "streaming"]

\* A plausible slip: an edit is due from the boundary second on.
RECURSIVE stream_loop_ge(_, _)
stream_loop_ge(s, config) ==
    IF s.stream = <<>> THEN Returned(s)
    ELSE LET chunk == Head(s.stream)
             rest == [s EXCEPT !.stream = Tail(@)]
         IN  IF chunk.type = "delta"
             THEN LET now == s.now + chunk.gap
                      text == [s.partial_response EXCEPT !.deltas = @ + 1]
                      at == [rest EXCEPT !.now = now]
                      elapsed == now - s.last_edit
                  IN  IF ~s.response
                      THEN [send_message(Handled(at, chunk, text, elapsed, "send"), Content(text))
                                EXCEPT !.response = TRUE, !.last_edit = now, !.pc = "streaming"]
                      ELSE IF now - s.last_edit >= config.stream_edit_interval_secs
                      THEN [Call(Handled(at, chunk, text, elapsed, "edit"), "edit", Content(text))
                                EXCEPT !.last_edit = now, !.pc = "streaming"]
                      ELSE stream_loop_ge(Handled(at, chunk, text, elapsed, "none"), config)
             ELSE LET text == [done |-> s.partial_response.done + 1, deltas |-> 0]
                      elapsed == s.now - s.last_edit
                  IN  IF ~s.response
                      THEN [send_message(Handled(rest, chunk, text, elapsed, "send"), Content(text))
                                EXCEPT !.response = TRUE, !.pc = "streaming"]
                      ELSE [Call(Handled(rest, chunk, text, elapsed, "edit"), "edit", Content(text))
                                EXCEPT !.pc = "streaming"]

\* A plausible slip: a delta that is not written is not kept either.
RECURSIVE stream_loop_unsent(_, _)
stream_loop_unsent(s, config) ==
    IF s.stream = <<>> THEN Returned(s)
    ELSE LET chunk == Head(s.stream)
             rest == [s EXCEPT !.stream = Tail(@)]
         IN  IF chunk.type = "delta"
             THEN LET now == s.now + chunk.gap
                      text == [s.partial_response EXCEPT !.deltas = @ + 1]
                      at == [rest EXCEPT !.now = now]
                      elapsed == now - s.last_edit
                  IN  IF ~s.response
                      THEN [send_message(Handled(at, chunk, text, elapsed, "send"), Content(text))
                                EXCEPT !.response = TRUE, !.last_edit = now, !.pc = "streaming"]
                      ELSE IF now - s.last_edit > config.stream_edit_interval_secs
                      THEN [Call(Handled(at, chunk, text, elapsed, "edit"), "edit", Content(text))
                                EXCEPT !.last_edit = now, !.pc = "streaming"]
                      ELSE stream_loop_unsent(Handled(at, chunk, s.partial_response, elapsed, "none"), config)
             ELSE LET text == [done |-> s.partial_response.done + 1, deltas |-> 0]
                      elapsed == s.now - s.last_edit
                  IN  IF ~s.response
                      THEN [send_message(Handled(rest, chunk, text, elapsed, "send"), Content(text))
                                EXCEPT !.response = TRUE, !.pc = "streaming"]
                      ELSE [Call(Handled(rest, chunk, text, elapsed, "edit"), "edit", Content(text))
                                EXCEPT !.pc = "streaming"]

\* The loop of handle_streaming_output from the current event up to the next
\* awaited send or edit, or to the end of the stream.
RECURSIVE stream_loop(_, _)
stream_loop(s, config) ==
    IF s.stream = <<>> THEN Returned(s)
    ELSE LET chunk == Head(s.stream)
             rest == [s EXCEPT !.stream = Tail(@)]
         IN  IF chunk.type = "delta"
             THEN LET now == s.now + chunk.gap
                      text == [s.partial_response EXCEPT !.deltas = @ + 1]
                      at == [rest EXCEPT !.now = now]
                      elapsed == now - s.last_edit
                  IN  IF ~s.response
                      THEN [send_message(Handled(at, chunk, text, elapsed, "send"), Content(text))
                                EXCEPT !.response = TRUE, !.last_edit = now, !.pc = "streaming"]
                      ELSE IF now - s.last_edit > config.stream_edit_interval_secs
                      THEN [Call(Handled(at, chunk, text, elapsed, "edit"), "edit", Content(text))
                                EXCEPT !.last_edit = now, !.pc = "streaming"]
                      ELSE stream_loop(Handled(at, chunk, text, elapsed, "none"), config)
             ELSE LET text == [done |-> s.partial_response.done + 1, deltas |-> 0]
                      elapsed == s.now - s.last_edit
                  IN  IF ~s.response
                      THEN [send_message(Handled(rest, chunk, text, elapsed, "send"), Content(text))
                                EXCEPT !.response = TRUE, !.pc = "streaming"]
                      ELSE [Call(Handled(rest, chunk, text, elapsed, "edit"), "edit", Content(text))
                                EXCEPT !.pc = "streaming"]

\* handle_streaming_output after create_thread: the generation call, then the loop.
streaming_generate(s, config, gen) ==
    LET called == Call(s, "responses.create", IF gen.raises THEN "raised" ELSE "stream")
    IN  IF gen.raises THEN on_message_except(called, config)
        ELSE stream_loop([called EXCEPT !.stream = gen.stream], config)

\* handle_streaming_output from its start.
handle_streaming_output(s, config, gen) ==
    IF creates_thread(s)
    THEN [Call(s, "create_thread", "") EXCEPT !.pc = "create_thread"]
    ELSE streaming_generate(s, config, gen)

\* handle_default_output from its start: the generation call, create_thread, send.
handle_default_output(s, config, gen) ==
    LET called == Call(s, "responses.create", IF gen.raises THEN "raised" ELSE "")
    IN  IF gen.raises THEN on_message_except(called, config)
        ELSE IF creates_thread(called)
        THEN [Call(called, "create_thread", "") EXCEPT !.pc = "create_thread"]
        ELSE [send_message(called, "response") EXCEPT !.pc = "sending"]

\* ParsedMessage.parse(self, message): the referenced message is fetched and put
\* first when the message is a reply.
parse(m) == m.reference

\* A plausible slip: an admitted message is counted only once it has been answered.
rate_limited_uncounted(s, config, user_info) ==
    LET r == rate_limit_check(user_info, s.msg.author, s.msg.created_at, config)
    IN  [ user_info |-> IF r.admitted THEN user_info ELSE r.user_info,
          handler |-> IF ~r.admitted
                      THEN [Call(s, "reply", "throttle") EXCEPT !.verdict = "denied",
                                                                !.pc = "sending"]
                      ELSE [s EXCEPT !.verdict = "admitted", !.pc = "typing"] ]

\* rate_limit_check around handle_response: a denied message gets the notice and
\* the method is not called; an admitted one enters channel.typing().
rate_limited(s, config, user_info) ==
    LET r == rate_limit_check(user_info, s.msg.author, s.msg.created_at, config)
    IN  [ user_info |-> r.user_info,
          handler |-> IF ~r.admitted
                      THEN [Call(s, "reply", "throttle") EXCEPT !.verdict = "denied",
                                                                !.pc = "sending"]
                      ELSE [s EXCEPT !.verdict = "admitted", !.pc = "typing"] ]

\* GorkBot.on_message without the test of the author.
on_message_any_author(s0, m, config, user_info) ==
    LET s == [s0 EXCEPT !.msg = m]
        ignored == [user_info |-> user_info, handler |-> Returned(s)]
        kind == channel_type(m.channel)
    IN  CASE kind = "text" ->
                IF ~(m.mentions_bot /\ can_message_channel(config, m.channel))
                THEN ignored
                ELSE rate_limited([s EXCEPT !.should_reply = TRUE], config, user_info)
          [] kind = "private" ->
                rate_limited([s EXCEPT !.should_reply = FALSE], config, user_info)
          [] kind \in {"public_thread", "private_thread"} ->
                IF owner(m.channel) # BotUser \/ ~me(m.channel)
                THEN ignored
                ELSE rate_limited([s EXCEPT !.should_reply = FALSE], config, user_info)
          [] OTHER ->
                [user_info |-> user_info, handler |-> on_message_except(s, config)]

\* GorkBot.on_message up to its first await.
on_message(s0, m, config, user_info) ==
    LET s == [s0 EXCEPT !.msg = m]
        ignored == [user_info |-> user_info, handler |-> Returned(s)]
        kind == channel_type(m.channel)
    IN  IF m.author = BotUser THEN ignored
        ELSE CASE kind = "text" ->
                    IF ~(m.mentions_bot /\ can_message_channel(config, m.channel))
                    THEN ignored
                    ELSE rate_limited([s EXCEPT !.should_reply = TRUE], config, user_info)
               [] kind = "private" ->
                    rate_limited([s EXCEPT !.should_reply = FALSE], config, user_info)
               [] kind \in {"public_thread", "private_thread"} ->
                    IF owner(m.channel) # BotUser \/ ~me(m.channel)
                    THEN ignored
                    ELSE rate_limited([s EXCEPT !.should_reply = FALSE], config, user_info)
               [] OTHER ->
                    [user_info |-> user_info, handler |-> on_message_except(s, config)]

\* GorkBot.handle_response from its start to the await of the history or of the parse.
handle_response(s, in_testing) ==
    IF in_testing
    THEN [send_message(s, "testing") EXCEPT !.pc = "sending"]
    ELSE [s EXCEPT !.pc = "parsing"]

\* GorkBot.handle_response once the messages are parsed.
handle_output(s, config, gen) ==
    LET parsed == [s EXCEPT !.referenced_message =
                       IF is_thread(s.msg.channel) THEN "none" ELSE parse(s.msg)]
    IN  IF config.stream_output
        THEN handle_streaming_output(parsed, config, gen)
        ELSE handle_default_output(parsed, config, gen)

\* message.create_thread returned (in a DM it raises: the message has no guild).
thread_created(s, config, gen) ==
    IF channel_type(s.msg.channel) = "private"
    THEN on_message_except(s, config)
    ELSE LET t == [s EXCEPT !.thread = TRUE]
         IN  IF config.stream_output
             THEN streaming_generate(t, config, gen)
             ELSE [send_message(t, "response") EXCEPT !.pc = "sending"]

SetHandler(h, s) == handlers' = [handlers EXCEPT ![h] = s]

Idle(h) == handlers[h].pc = "idle" /\ \A e \in Earlier(h) : handlers[e].pc # "idle"

GorkBot_on_message(h, m) ==
    /\ pipeline = "GorkBot"
    /\ Idle(h)
    /\ LET r == on_message(handlers[h], m, _bot_config, _user_info)
       IN  /\ SetHandler(h, r.handler)
           /\ _user_info' = r.user_info
    /\ UNCHANGED <<_bot_config, rate_log, pipeline, testing, response, functions>>

GorkBot_handle_response(h) ==
    /\ pipeline = "GorkBot"
    /\ handlers[h].pc = "typing"
    /\ SetHandler(h, handle_response(handlers[h], testing))
    /\ UNCHANGED <<_bot_config, _user_info, rate_log, pipeline, testing, response, functions>>

GorkBot_handle_output(h, gen) ==
    /\ pipeline = "GorkBot"
    /\ handlers[h].pc = "parsing"
    /\ SetHandler(h, handle_output(handlers[h], _bot_config, gen))
    /\ UNCHANGED <<_bot_config, _user_info, rate_log, pipeline, testing, response, functions>>

GorkBot_thread_created(h, gen) ==
    /\ pipeline = "GorkBot"
    /\ handlers[h].pc = "create_thread"
    /\ SetHandler(h, thread_created(handlers[h], _bot_config, gen))
    /\ UNCHANGED <<_bot_config, _user_info, rate_log, pipeline, testing, response, functions>>

GorkBot_stream_resumed(h) ==
    /\ pipeline = "GorkBot"
    /\ handlers[h].pc = "streaming"
    /\ SetHandler(h, stream_loop(handlers[h], _bot_config))
    /\ UNCHANGED <<_bot_config, _user_info, rate_log, pipeline, testing, response, functions>>

\* The last awaited send of a handler returned.
Sent(h) ==
    /\ handlers[h].pc = "sending"
    /\ SetHandler(h, Returned(handlers[h]))
    /\ UNCHANGED <<_bot_config, _user_info, rate_log, pipeline, testing, response, functions>>

\* A plausible slip: a failed edit is made again.
call_failed_retry(s, config, in_try) ==
    LET f == [s EXCEPT !.failed = Len(s.calls)]
        last == s.calls[Len(s.calls)]
    IN  IF last.call = "edit" THEN Call(f, last.call, last.content)
        ELSE IF in_try /\ last.content # "error"
        THEN on_message_except(f, config)
        ELSE [f EXCEPT !.pc = "raised"]

\* The awaited platform call of a handler (send, reply, edit, create_thread)
\* raised. In GorkBot the call is inside on_message's try, unless it is the
\* notice of the except clause itself; ResponseHandler has no handler of its own.
call_failed(s, config, in_try) ==
    LET f == [s EXCEPT !.failed = Len(s.calls)]
    IN  IF in_try /\ s.calls[Len(s.calls)].content # "error"
        THEN on_message_except(f, config)
        ELSE [f EXCEPT !.pc = "raised"]

AwaitsPlatform(s) == s.pc \in {"sending", "streaming", "create_thread", "throttled"}

CallFailed(h) ==
    /\ AwaitsPlatform(handlers[h])
    /\ SetHandler(h, call_failed(handlers[h], _bot_config, pipeline = "GorkBot"))
    /\ UNCHANGED <<_bot_config, _user_info, rate_log, pipeline, testing, response, functions>>

\* ------------------------------------------------------------------ ResponseHandler (response_handling.py)
\* ParsedMessage.__init__: the channel types it accepts.
parsed_message_accepts(m) ==
    channel_type(m.channel) \in {"text", "private", "public_thread"}

\* ResponseHandler.__init__: self._user_info = user_info if user_info else {}.
\* An empty dict is falsy, so the handler then keeps a dict of its own.
handler_user_info(user_info) ==
    IF DOMAIN user_info # {} THEN user_info ELSE <<>>

\* ResponseHandler.send_response
send_response(s, content, should_reply) ==
    IF should_reply /\ ~s.thread THEN Call(s, "reply", content)
    ELSE IF s.thread THEN Call(s, "thread.send", content)
    ELSE Call(s, "channel.send", content)

\* ResponseHandler.__generate_response: the generation call, then the send.
generate_response(s, should_reply, gen) ==
    LET called == Call([s EXCEPT !.should_reply = should_reply], "responses.create",
                       IF gen.raises THEN "raised" ELSE "")
    IN  IF gen.raises THEN [called EXCEPT !.pc = "raised"]
        ELSE [send_response(called, "response", should_reply) EXCEPT !.pc = "sending"]

\* ResponseHandler.__create_thread, then __generate_response(should_reply=False).
create_thread_and_generate(s, gen) ==
    IF s.referenced_message # "bot"
    THEN generate_response(s, FALSE, gen)
    ELSE [Call(s, "create_thread", "") EXCEPT !.pc = "create_thread"]

\* ParsedMessage.get_history awaits only when it fetches: the channel history of
\* a thread or DM, or the referenced message of a reply.
history_awaits(m) ==
    \/ is_thread(m.channel)
    \/ channel_type(m.channel) = "private"
    \/ m.reference # "none"

\* __handle_reply_response after get_history.
handle_reply_response(s, gen) ==
    LET fetched == [s EXCEPT !.referenced_message = s.msg.reference]
    IN  IF fetched.referenced_message # "none"
        THEN create_thread_and_generate(fetched, gen)
        ELSE generate_response(fetched, TRUE, gen)

\* __handle_direct_response after get_history.
handle_direct_response(s, gen) == generate_response(s, FALSE, gen)

\* The match of ResponseHandler.handle_response.
match_channel(s, config, gen) ==
    LET m == s.msg
        kind == channel_type(m.channel)
        fetch == [s EXCEPT !.pc = "history"]
    IN  CASE kind = "text" ->
                IF ~(m.mentions_bot /\ can_message_channel(config, m.channel))
                THEN Returned(s)
                ELSE IF history_awaits(m) THEN fetch ELSE handle_reply_response(s, gen)
          [] kind = "private" -> fetch
          [] kind \in {"public_thread", "private_thread"} ->
                IF owner(m.channel) # BotUser THEN Returned(s) ELSE fetch
          [] OTHER -> [s EXCEPT !.pc = "raised"]

\* get_history returned.
history_fetched(s, gen) ==
    IF channel_type(s.msg.channel) = "text"
    THEN handle_reply_response(s, gen)
    ELSE handle_direct_response(s, gen)

\* ResponseHandler.handle_response up to its first await. A denied message gets
\* the notice, and the method goes on to the match once the notice is sent.
rh_handle_response(s, config, user_info, in_testing, gen) ==
    IF in_testing
    THEN [user_info |-> user_info,
          handler |-> [send_response(s, "testing", FALSE) EXCEPT !.pc = "sending"]]
    ELSE LET own == handler_user_info(user_info)
             r == rate_limit_check(own, s.msg.author, s.msg.created_at, config)
         IN  [ user_info |-> IF DOMAIN user_info # {} THEN r.user_info ELSE user_info,
               handler |-> IF ~r.admitted
                           THEN [send_response([s EXCEPT !.verdict = "denied"], "throttle", FALSE)
                                    EXCEPT !.pc = "throttled"]
                           ELSE match_channel([s EXCEPT !.verdict = "admitted"], config, gen) ]

\* The caller of ResponseHandler: ParsedMessage(message, bot_user), then
\* ResponseHandler(...).handle_response(), for a message of another user.
handle_message(s0, m, config, user_info, in_testing, gen) ==
    LET s == [s0 EXCEPT !.msg = m]
    IN  IF ~parsed_message_accepts(m)
        THEN [user_info |-> user_info, handler |-> [s EXCEPT !.pc = "raised"]]
        ELSE rh_handle_response(s, config, user_info, in_testing, gen)

ResponseHandler_handle_response(h, m, gen) ==
    /\ pipeline = "ResponseHandler"
    /\ Idle(h)
    /\ m.author # BotUser
    /\ LET r == handle_message(handlers[h], m, _bot_config, _user_info, testing, gen)
       IN  /\ SetHandler(h, r.handler)
           /\ _user_info' = r.user_info
    /\ UNCHANGED <<_bot_config, rate_log, pipeline, testing, response, functions>>

ResponseHandler_throttle_sent(h, gen) ==
    /\ pipeline = "ResponseHandler"
    /\ handlers[h].pc = "throttled"
    /\ SetHandler(h, match_channel(handlers[h], _bot_config, gen))
    /\ UNCHANGED <<_bot_config, _user_info, rate_log, pipeline, testing, response, functions>>

ResponseHandler_history_fetched(h, gen) ==
    /\ pipeline = "ResponseHandler"
    /\ handlers[h].pc = "history"
    /\ SetHandler(h, history_fetched(handlers[h], gen))
    /\ UNCHANGED <<_bot_config, _user_info, rate_log, pipeline, testing, response, functions>>

ResponseHandler_thread_created(h, gen) ==
    /\ pipeline = "ResponseHandler"
    /\ handlers[h].pc = "create_thread"
    /\ SetHandler(h, generate_response([handlers[h] EXCEPT !.thread = TRUE], FALSE, gen))
    /\ UNCHANGED <<_bot_config, _user_info, rate_log, pipeline, testing, response, functions>>

\* ------------------------------------------------------------------ Response (ai_service)
\* A generated text is a sequence of characters.
Alphabet == {"%", "a", " "}

Texts ==
    UNION {[1..n -> Alphabet] : n \in 0..MaxTextLen}
    \cup UNION {[1..n -> {"%", "a"}] : n \in (MaxTextLen + 1)..MaxPercentLen}

\* str.strip() over the alphabet: leading and trailing spaces are removed.
RECURSIVE lstrip(_)
lstrip(text) ==
    IF text # <<>> /\ Head(text) = " " THEN lstrip(Tail(text)) ELSE text

RECURSIVE rstrip(_)
rstrip(text) ==
    IF text # <<>> /\ text[Len(text)] = " "
    THEN rstrip(SubSeq(text, 1, Len(text) - 1))
    ELSE text

strip(text) == rstrip(lstrip(text))

\* The pattern %%([^%]+)%% tried at position i: the length of the match, 0 if
\* there is none. [^%]+ takes the whole run of characters other than '%'.
IsPercent(text, i) == i <= Len(text) /\ text[i] = "%"

RECURSIVE RunLength(_, _)
RunLength(text, i) ==
    IF i > Len(text) \/ text[i] = "%" THEN 0 ELSE 1 + RunLength(text, i + 1)

keyword_tag_pattern(text, i) ==
    IF IsPercent(text, i) /\ IsPercent(text, i + 1)
    THEN LET n == RunLength(text, i + 2)
         IN  IF n >= 1 /\ IsPercent(text, i + 2 + n) /\ IsPercent(text, i + 3 + n)
             THEN n + 4
             ELSE 0
    ELSE 0

\* re.sub(pattern, "", text) from position i: the matches, found left to right
\* and not overlapping, are left out.
RECURSIVE sub(_, _)
sub(text, i) ==
    IF i > Len(text) THEN <<>>
    ELSE LET n == keyword_tag_pattern(text, i)
         IN  IF n > 0 THEN sub(text, i + n) ELSE <<text[i]>> \o sub(text, i + 1)

\* pattern.findall(text) from position i: the keywords of the matches.
RECURSIVE findall(_, _)
findall(text, i) ==
    IF i > Len(text) THEN <<>>
    ELSE LET n == keyword_tag_pattern(text, i)
         IN  IF n > 0
             THEN <<SubSeq(text, i + 2, i + n - 3)>> \o findall(text, i + n)
             ELSE findall(text, i + 1)

\* Response.get_text of ai_service/types.py: strip, re.sub, strip.
get_text(text) == strip(sub(strip(text), 1))

\* Response.get_text of ai_service.py: strip, re.sub.
ai_service_get_text(text) == sub(strip(text), 1)

\* A text with two directives, "%%aa%%%%a%%": the media store has an entry
\* for the second keyword only.
TwoDirectives == <<"%", "%", "a", "a", "%", "%", "%", "%", "a", "%", "%">>

ResponseClasses == {"ai_service/types.py", "ai_service.py"}

\* The absence of a media URL (Python's None for Response.gif).
NoGif == "None"

\* CustomMediaStore.gifs: keyword -> URLs. One store has no entry, the other
\* has two URLs for the keyword "a".
MediaStores == {<<>>, [keyword \in {<<"a">>} |-> <<"urlA", "urlB">>]}

\* CustomMediaStore.get_gif
get_gif(gifs, keyword) == IF keyword \in DOMAIN gifs THEN gifs[keyword] ELSE <<>>

\* What the search request can answer: the status code, the "results" list
\* (absent, empty, or with an entry) and, for the entry that random.choice
\* picks, whether it has "media_formats", whether that has "gif", and the "url"
\* of the gif (NoGif when the field is absent).
SearchAnswers ==
    { [status |-> 500, results |-> "absent", media_formats |-> FALSE, gif |-> FALSE, url |-> NoGif],
      [status |-> 200, results |-> "absent", media_formats |-> FALSE, gif |-> FALSE, url |-> NoGif],
      [status |-> 200, results |-> "empty", media_formats |-> FALSE, gif |-> FALSE, url |-> NoGif],
      [status |-> 200, results |-> "some", media_formats |-> FALSE, gif |-> FALSE, url |-> NoGif],
      [status |-> 200, results |-> "some", media_formats |-> TRUE, gif |-> FALSE, url |-> NoGif],
      [status |-> 200, results |-> "some", media_formats |-> TRUE, gif |-> TRUE, url |-> NoGif],
      [status |-> 200, results |-> "some", media_formats |-> TRUE, gif |-> TRUE, url |-> "urlT"] }

\* Response.get_internet_gif: the URL it returns, or the exception it leaves
\* with. choice.get("media_formats").get("gif").get("url") calls .get on None
\* when "media_formats" or "gif" is absent.
get_internet_gif(answer) ==
    IF answer.status # 200 THEN [raised |-> FALSE, gif |-> NoGif]
    ELSE IF answer.results # "some" THEN [raised |-> FALSE, gif |-> NoGif]
    ELSE IF ~answer.media_formats \/ ~answer.gif THEN [raised |-> TRUE, gif |-> NoGif]
    ELSE [raised |-> FALSE, gif |-> answer.url]

\* A plausible slip: the search is asked first, the local index second.
set_gif_search_first(text, gifs, pick, answer) ==
    LET matches == findall(text, 1)
    IN  IF matches = <<>>
        THEN [raised |-> FALSE, gif |-> NoGif, calls |-> <<>>]
        ELSE LET found == get_internet_gif(answer)
                 gif_links == get_gif(gifs, matches[1])
                 asked == <<[call |-> "requests.get", keyword |-> matches[1]]>>
             IN  IF found.raised \/ found.gif # NoGif \/ gif_links = <<>>
                 THEN [raised |-> found.raised, gif |-> found.gif, calls |-> asked]
                 ELSE [raised |-> FALSE,
                       gif |-> gif_links[1 + (pick % Len(gif_links))],
                       calls |-> asked \o <<[call |-> "get_gif", keyword |-> matches[1]]>>]

\* Response.set_gif: the first keyword is looked up in the local index, and
\* searched for only when the index has no URL for it. pick is the draw of
\* random.choice among the local URLs.
set_gif(text, gifs, pick, answer) ==
    LET matches == findall(text, 1)
    IN  IF matches = <<>>
        THEN [raised |-> FALSE, gif |-> NoGif, calls |-> <<>>]
        ELSE LET gif_links == get_gif(gifs, matches[1])
                 looked == <<[call |-> "get_gif", keyword |-> matches[1]]>>
             IN  IF gif_links # <<>>
                 THEN [raised |-> FALSE,
                       gif |-> gif_links[1 + (pick % Len(gif_links))],
                       calls |-> looked]
                 ELSE LET found == get_internet_gif(answer)
                      IN  [raised |-> found.raised,
                           gif |-> found.gif,
                           calls |-> looked \o <<[call |-> "requests.get", keyword |-> matches[1]]>>]

\* No generated text yet.
NoResponse ==
    [ pc |-> "none", class |-> "", text |-> <<>>, gifs |-> <<>>, gif |-> NoGif,
      calls |-> <<>>, shown |-> <<>> ]

\* The generation service returned `text`, about to be wrapped by Response of `class`.
Generated(class, text) == [NoResponse EXCEPT !.pc = "text", !.class = class, !.text = text]

\* Response.__init__: the text is kept and set_gif resolves the media; an
\* exception of set_gif leaves the constructor.
Response_init(gifs, pick, answer) ==
    /\ response.pc = "text"
    /\ LET r == set_gif(response.text, gifs, pick, answer)
       IN  response' = [response EXCEPT
                !.pc = IF r.raised THEN "raised" ELSE "built",
                !.gifs = gifs, !.gif = r.gif, !.calls = r.calls]
    /\ UNCHANGED <<_bot_config, _user_info, rate_log, pipeline, testing, handlers, functions>>

\* response.get_text(), as the pipeline calls it to deliver the text.
Response_get_text ==
    /\ response.pc = "built"
    /\ response' = [response EXCEPT
            !.pc = "shown",
            !.shown = IF response.class = "ai_service/types.py"
                      THEN get_text(response.text)
                      ELSE ai_service_get_text(response.text)]
    /\ UNCHANGED <<_bot_config, _user_info, rate_log, pipeline, testing, handlers, functions>>

\* ------------------------------------------------------------------ pipeline specification
Init ==
    /\ pipeline \in {"GorkBot", "ResponseHandler"}
    /\ testing \in BOOLEAN
    /\ _bot_config \in {c \in BotConfigs :
            /\ c.allowed_messages_per_interval < Cardinality(Handlers)
            /\ pipeline = "ResponseHandler" => ~c.stream_output
            /\ testing => (c.enable_whitelist /\ ~c.stream_output
                              /\ c.allowed_messages_per_interval = 1)}
    /\ _user_info = <<>>
    /\ rate_log = <<>>
    /\ handlers = [h \in Handlers |-> IdleHandler]
    /\ response = NoResponse
    /\ NoFunctions

Next ==
    \E h \in Handlers :
        \/ \E m \in MessagesOf(h) : GorkBot_on_message(h, m)
        \/ GorkBot_handle_response(h)
        \/ \E gen \in Generations(_bot_config) : GorkBot_handle_output(h, gen)
        \/ \E gen \in Generations(_bot_config) : GorkBot_thread_created(h, gen)
        \/ GorkBot_stream_resumed(h)
        \/ \E m \in MessagesOf(h), gen \in Generations(_bot_config) :
                ResponseHandler_handle_response(h, m, gen)
        \/ \E gen \in Generations(_bot_config) : ResponseHandler_throttle_sent(h, gen)
        \/ \E gen \in Generations(_bot_config) : ResponseHandler_history_fetched(h, gen)
        \/ \E gen \in Generations(_bot_config) : ResponseHandler_thread_created(h, gen)
        \/ Sent(h)
        \/ CallFailed(h)

Spec == Init /\ [][Next]_vars

\* ------------------------------------------------------------------ limiter specification
InitRate ==
    /\ _bot_config \in {c \in BotConfigs : c.enable_whitelist /\ ~c.stream_output}
    /\ _user_info = <<>>
    /\ rate_log = <<>>
    /\ pipeline = "GorkBot"
    /\ testing = FALSE
    /\ handlers = [h \in Handlers |-> IdleHandler]
    /\ response = NoResponse
    /\ NoFunctions

\* One message of `author`, created at `created_at`, passes through rate_limit_check.
CheckMessage(author, created_at) ==
    /\ Len(rate_log) < MaxChecks
    /\ LET r == rate_limit_check(_user_info, author, created_at, _bot_config)
       IN  /\ _user_info' = r.user_info
           /\ rate_log' = Append(rate_log,
                  [ author |-> author,
                    created_at |-> created_at,
                    admitted |-> r.admitted,
                    before |-> IF author \in DOMAIN _user_info
                               THEN _user_info[author] ELSE UserInfo,
                    after |-> r.user_info[author] ])
    /\ UNCHANGED <<_bot_config, pipeline, testing, handlers, response, functions>>

NextRate == \E author \in Humans, created_at \in Instants : CheckMessage(author, created_at)

SpecRate == InitRate /\ [][NextRate]_vars

\* ------------------------------------------------------------------ post-processing specification
InitResponse ==
    /\ _bot_config \in {c \in BotConfigs :
            c.enable_whitelist /\ ~c.stream_output /\ c.allowed_messages_per_interval = 1}
    /\ _user_info = <<>>
    /\ rate_log = <<>>
    /\ pipeline = "ResponseHandler"
    /\ testing = FALSE
    /\ handlers = [h \in Handlers |-> IdleHandler]
    /\ response \in {Generated(class, text) :
                         class \in ResponseClasses, text \in Texts \cup {TwoDirectives}}
    /\ NoFunctions

NextResponse ==
    \/ \E gifs \in MediaStores, pick \in {0, 1}, answer \in SearchAnswers :
            Response_init(gifs, pick, answer)
    \/ Response_get_text

SpecResponse == InitResponse /\ [][NextResponse]_vars

\* ------------------------------------------------------------------ streaming specification
\* One exchange of GorkBot in streaming mode, over the longer streams.
InitStream ==
    /\ _bot_config \in {c \in BotConfigs : c.stream_output}
    /\ _user_info = <<>>
    /\ rate_log = <<>>
    /\ pipeline = "GorkBot"
    /\ testing = FALSE
    /\ handlers = [h \in Handlers |-> IdleHandler]
    /\ response = NoResponse
    /\ NoFunctions

NextStream ==
    LET h == "h1"
    IN  \/ \E m \in MessagesOf(h) : GorkBot_on_message(h, m)
        \/ GorkBot_handle_response(h)
        \/ \E gen \in StreamGenerations : GorkBot_handle_output(h, gen)
        \/ \E gen \in StreamGenerations : GorkBot_thread_created(h, gen)
        \/ GorkBot_stream_resumed(h)
        \/ Sent(h)
        \/ CallFailed(h)

SpecStream == InitStream /\ [][NextStream]_vars

\* ------------------------------------------------------------------ event loop specification
\* GorkBot on its one event loop. The generation call is an ordinary call of
\* the synchronous OpenAI client inside a coroutine: from the call to its
\* return the thread of the event loop is inside it, and no coroutine runs.
\* A handler in the call has pc "generating"; a call that never returns is a
\* behaviour in which Loop_generation_returned is never taken.

\* The handler's next step is the generation call: right after the parse
\* (handle_default_output, or handle_streaming_output without a new thread), or
\* once create_thread returned in streaming mode.
generation_next(s, config) ==
    \/ /\ s.pc = "parsing"
       /\ LET parsed == [s EXCEPT !.referenced_message =
                            IF is_thread(s.msg.channel) THEN "none" ELSE parse(s.msg)]
          IN  ~(config.stream_output /\ creates_thread(parsed))
    \/ /\ s.pc = "create_thread"
       /\ config.stream_output
       /\ channel_type(s.msg.channel) # "private"

\* The generation call returns or raises, and the handler runs on to its next await.
generation_returned(s, config, gen) ==
    IF s.calls # <<>> /\ s.calls[Len(s.calls)].call = "create_thread"
    THEN thread_created([s EXCEPT !.pc = "create_thread"], config, gen)
    ELSE handle_output([s EXCEPT !.pc = "parsing"], config, gen)

\* No handler is inside a generation call: the event loop runs coroutines.
EventLoopRuns == \A h \in Handlers : handlers[h].pc # "generating"

Loop_on_message(h, m) == EventLoopRuns /\ GorkBot_on_message(h, m)

Loop_handle_response(h) == EventLoopRuns /\ GorkBot_handle_response(h)

Loop_generation_called(h) ==
    /\ EventLoopRuns
    /\ generation_next(handlers[h], _bot_config)
    /\ SetHandler(h, [handlers[h] EXCEPT !.pc = "generating"])
    /\ UNCHANGED <<_bot_config, _user_info, rate_log, pipeline, testing, response, functions>>

Loop_generation_returned(h, gen) ==
    /\ handlers[h].pc = "generating"
    /\ SetHandler(h, generation_returned(handlers[h], _bot_config, gen))
    /\ UNCHANGED <<_bot_config, _user_info, rate_log, pipeline, testing, response, functions>>

Loop_handle_output(h, gen) ==
    /\ EventLoopRuns
    /\ ~generation_next(handlers[h], _bot_config)
    /\ GorkBot_handle_output(h, gen)

Loop_thread_created(h, gen) ==
    /\ EventLoopRuns
    /\ ~generation_next(handlers[h], _bot_config)
    /\ GorkBot_thread_created(h, gen)

Loop_stream_resumed(h) == EventLoopRuns /\ GorkBot_stream_resumed(h)

Loop_Sent(h) == EventLoopRuns /\ Sent(h)

Loop_CallFailed(h) == EventLoopRuns /\ CallFailed(h)

InitLoop ==
    /\ _bot_config \in {c \in BotConfigs : c.allowed_messages_per_interval = 1}
    /\ _user_info = <<>>
    /\ rate_log = <<>>
    /\ pipeline = "GorkBot"
    /\ testing = FALSE
    /\ handlers = [h \in Handlers |-> IdleHandler]
    /\ response = NoResponse
    /\ NoFunctions

NextLoop ==
    \E h \in Handlers :
        \/ \E m \in MessagesOf(h) : Loop_on_message(h, m)
        \/ Loop_handle_response(h)
        \/ Loop_generation_called(h)
        \/ \E gen \in Generations(_bot_config) : Loop_generation_returned(h, gen)
        \/ \E gen \in Generations(_bot_config) : Loop_handle_output(h, gen)
        \/ \E gen \in Generations(_bot_config) : Loop_thread_created(h, gen)
        \/ Loop_stream_resumed(h)
        \/ Loop_Sent(h)
        \/ Loop_CallFailed(h)

SpecLoop == InitLoop /\ [][NextLoop]_vars

\* ------------------------------------------------------------------ history specification
\* A channel is the number of its messages: message i is the i-th oldest.
\* channel.history(limit=limit): the newest messages, newest first.
channel_history(channel, limit) ==
    [i \in 1..(IF channel < limit THEN channel ELSE limit) |-> channel + 1 - i]

reversed(seq) == [i \in 1..Len(seq) |-> seq[Len(seq) + 1 - i]]

\* No message is replied to (message.reference is None).
NoReference == 0

\* ParsedMessage.get_history of response_handling/types.py.
get_history(h) ==
    IF h.kind \in {"thread", "dm"}
    THEN reversed(channel_history(h.channel, HistoryLimit))
    ELSE IF h.reference # NoReference
    THEN <<h.reference, h.message>>
    ELSE <<h.message>>

\* ParsedMessage.get_history of message_parsing.py.
message_parsing_get_history(h) ==
    IF h.kind = "thread"
    THEN channel_history(h.channel, HistoryLimit)
    ELSE IF h.reference # NoReference
    THEN <<h.reference, h.message>>
    ELSE <<h.message>>

\* GorkBot.handle_response of bot.py, for a message in a thread.
bot_message_history(h) == reversed(channel_history(h.channel, HistoryLimit))

HistoryClasses == {"response_handling/types.py", "message_parsing.py", "bot.py"}

\* The event: message `message` is the newest of its channel; a reply
\* refers to an older message of the channel.
Triggers ==
    {h \in [ class : HistoryClasses,
             kind : {"thread", "dm", "text"},
             channel : 1..(HistoryLimit + 1),
             message : 1..(HistoryLimit + 1),
             reference : {NoReference, 1},
             arrivals : {0},
             pc : {"triggered"},
             message_history : {<<>>} ] :
        /\ h.message = h.channel
        /\ h.reference # NoReference => (h.kind # "thread" /\ h.reference < h.message)
        /\ h.class = "bot.py" => h.kind = "thread"}

InitHistory ==
    /\ _bot_config \in {c \in BotConfigs :
            c.enable_whitelist /\ ~c.stream_output /\ c.allowed_messages_per_interval = 1}
    /\ _user_info = <<>>
    /\ rate_log = <<>>
    /\ pipeline = "ResponseHandler"
    /\ testing = FALSE
    /\ handlers = [h \in Handlers |-> IdleHandler]
    /\ response = NoResponse
    /\ history \in Triggers
    /\ request = NoCall
    /\ prompt = NoCall
    /\ loaded_config = NoCall

\* Another message arrives in the channel while the handler of the event is
\* at an await before the fetch (the limiter's reply, channel.typing()).
MessageArrives ==
    /\ history.pc = "triggered"
    /\ history.arrivals < MaxArrivals
    /\ history' = [history EXCEPT !.channel = @ + 1, !.arrivals = @ + 1]
    /\ UNCHANGED <<_bot_config, _user_info, rate_log, pipeline, testing, handlers, response,
                   request, prompt, loaded_config>>

\* The message list is built.
HistoryFetched ==
    /\ history.pc = "triggered"
    /\ history' = [history EXCEPT
            !.pc = "fetched",
            !.message_history =
                CASE history.class = "response_handling/types.py" -> get_history(history)
                  [] history.class = "message_parsing.py" -> message_parsing_get_history(history)
                  [] OTHER -> bot_message_history(history)]
    /\ UNCHANGED <<_bot_config, _user_info, rate_log, pipeline, testing, handlers, response,
                   request, prompt, loaded_config>>

NextHistory == MessageArrives \/ HistoryFetched

SpecHistory == InitHistory /\ [][NextHistory]_vars

\* ------------------------------------------------------------------ request specification
RequestClasses == {"ai_service/requests.py", "ai_service.py", "ai_requests.py"}

\* The members of GPT_Model, in the two modules that define it.
GPT_Model(class) ==
    IF class = "ai_service/requests.py"
    THEN {"gpt-4.1-mini", "gpt-4o-mini", "gpt-4.1-nano", "gpt-5-mini"}
    ELSE {"gpt-4.1-mini", "gpt-4o-mini", "gpt-4.1-nano"}

\* Configured model names: none, members of GPT_Model, and a name that is no member.
ModelNames == {"", "gpt-4.1-mini", "gpt-5-mini", "gpt-4"}

\* Configured identity and instruction texts: empty, blank, and with text.
ConfigTexts == {<<>>, <<" ">>, <<"a">>}

\* Instructions.get_instructions / AIConfig.get_instructions: the formatted string.
get_instructions(identity, instructions) ==
    <<"# Identity\n\n">> \o strip(identity) \o <<"\n# Instructions\n\n">> \o strip(instructions)

\* Python's truth value of model_instructions: an Instructions object defines
\* neither __bool__ nor __len__ and is true; a string is true unless empty.
instructions_truthy(class, identity, instructions) ==
    IF class = "ai_service/requests.py" THEN TRUE
    ELSE get_instructions(identity, instructions) # <<>>

\* A request that raised before the service was called, and one that called it.
Raised(r, error) == [r EXCEPT !.pc = "raised", !.error = error]
Requested(r) ==
    [r EXCEPT !.pc = "called",
              !.calls = Append(@, [call |-> "responses.create", model |-> r.model,
                                   instructions |-> get_instructions(r.identity, r.instructions)])]

\* ResponseBuilder.get_chat_completion (ai_service/requests.py) and
\* ResponseBuilder.get_response (ai_service.py): the test of the configuration,
\* the conversion of the name to GPT_Model, the call.
get_chat_completion(r) ==
    IF r.model = "" \/ ~instructions_truthy(r.class, r.identity, r.instructions)
    THEN Raised(r, "ValueError")
    ELSE IF r.model \notin GPT_Model(r.class)
    THEN Raised(r, "ValueError")
    ELSE Requested(r)

\* ResponseBuilder.get_response of ai_requests.py: self.__input is a dict with
\* two keys, which is true, so only the model is tested.
ai_requests_get_response(r) ==
    IF r.model = "" THEN Raised(r, "ValueError") ELSE Requested(r)

Requests ==
    [ class : RequestClasses,
      model : ModelNames,
      identity : ConfigTexts,
      instructions : ConfigTexts,
      pc : {"built"},
      error : {""},
      calls : {<<>>} ]

InitRequest ==
    /\ _bot_config \in {c \in BotConfigs :
            c.enable_whitelist /\ ~c.stream_output /\ c.allowed_messages_per_interval = 1}
    /\ _user_info = <<>>
    /\ rate_log = <<>>
    /\ pipeline = "ResponseHandler"
    /\ testing = FALSE
    /\ handlers = [h \in Handlers |-> IdleHandler]
    /\ response = NoResponse
    /\ history = NoCall
    /\ request \in Requests
    /\ prompt = NoCall
    /\ loaded_config = NoCall

\* The builder is asked for the response.
GetResponse ==
    /\ request.pc = "built"
    /\ request' = IF request.class = "ai_requests.py"
                  THEN ai_requests_get_response(request)
                  ELSE get_chat_completion(request)
    /\ UNCHANGED <<_bot_config, _user_info, rate_log, pipeline, testing, handlers, response,
                   history, prompt, loaded_config>>

NextRequest == GetResponse

SpecRequest == InitRequest /\ [][NextRequest]_vars

\* ------------------------------------------------------------------ prompt text specification
\* A message content is a sequence of tokens: a word, a space, the mention
\* tokens of two users, and a link that the URL pattern of the class matches.
Tokens == {"hey", " ", "<@1>", "<@2>", "url"}

Users == {1, 2}

\* f"<@{user.id}>" and f"@{user.name}"
MentionToken(user) == IF user = 1 THEN "<@1>" ELSE "<@2>"
MentionName(user) == IF user = 1 THEN "@Alice" ELSE "@Bob"

\* The message of the documented example: "hey <@1> check this".
ExampleContent == <<"hey", " ", "<@1>", " ", "check", " ", "this">>

Contents ==
    UNION {[1..n -> Tokens] : n \in 0..MaxContentLen} \cup {ExampleContent}

\* message.mentions, in the order of the list.
MentionLists == {<<>>, <<1>>, <<2>>, <<1, 2>>, <<2, 1>>}

\* re.sub(pattern, "", text) for the URL pattern.
RECURSIVE remove_urls(_)
remove_urls(text) ==
    IF text = <<>> THEN <<>>
    ELSE IF Head(text) = "url" THEN remove_urls(Tail(text))
    ELSE <<Head(text)>> \o remove_urls(Tail(text))

\* A plausible slip: str.replace(old, new, 1), the first occurrence only.
RECURSIVE replace_first(_, _, _)
replace_first(text, old, new) ==
    IF text = <<>> THEN <<>>
    ELSE IF Head(text) = old THEN <<new>> \o Tail(text)
    ELSE <<Head(text)>> \o replace_first(Tail(text), old, new)

\* str.replace(old, new)
replace(text, old, new) == [i \in 1..Len(text) |-> IF text[i] = old THEN new ELSE text[i]]

\* for user in self.mentions: message_conent = message_conent.replace(...)
RECURSIVE replace_mentions(_, _)
replace_mentions(text, mentions) ==
    IF mentions = <<>> THEN text
    ELSE replace_mentions(replace(text, MentionToken(Head(mentions)), MentionName(Head(mentions))),
                          Tail(mentions))

\* ParsedMessage.get_prompt_text of response_handling/types.py.
get_prompt_text(content, mentions) ==
    strip(replace_mentions(remove_urls(strip(content)), mentions))

\* ParsedYoutubeLinks.get_prompt_text: the titles of the linked videos, when
\* the lookup found any.
youtube_titles(content, found) ==
    IF found /\ \E i \in 1..Len(content) : content[i] = "url"
    THEN <<"(Linked YouTube video(s): title)">>
    ELSE <<>>

\* ParsedMessage.get_prompt_text of message_parsing.py.
message_parsing_get_prompt_text(author, content, mentions, found) ==
    LET message_content == replace_mentions(remove_urls(strip(content)), mentions)
        titles == youtube_titles(content, found)
        prompt_text == <<author, ":", " ">> \o message_content
    IN  strip(IF titles # <<>> THEN prompt_text \o <<" ">> \o titles ELSE prompt_text)

PromptClasses == {"response_handling/types.py", "message_parsing.py"}

InitPrompt ==
    /\ _bot_config \in {c \in BotConfigs :
            c.enable_whitelist /\ ~c.stream_output /\ c.allowed_messages_per_interval = 1}
    /\ _user_info = <<>>
    /\ rate_log = <<>>
    /\ pipeline = "ResponseHandler"
    /\ testing = FALSE
    /\ handlers = [h \in Handlers |-> IdleHandler]
    /\ response = NoResponse
    /\ history = NoCall
    /\ request = NoCall
    /\ prompt \in [ class : PromptClasses,
                     author : {"alice"},
                     content : Contents,
                     mentions : MentionLists,
                     pc : {"parsed"},
                     text : {<<>>} ]
    /\ loaded_config = NoCall

\* The prompt text of the message is asked for.
GetPromptText(found) ==
    /\ prompt.pc = "parsed"
    /\ prompt' = [prompt EXCEPT
            !.pc = "text",
            !.text = IF prompt.class = "response_handling/types.py"
                     THEN get_prompt_text(prompt.content, prompt.mentions)
                     ELSE message_parsing_get_prompt_text(prompt.author, prompt.content,
                                                          prompt.mentions, found)]
    /\ UNCHANGED <<_bot_config, _user_info, rate_log, pipeline, testing, handlers, response,
                   history, request, loaded_config>>

NextPrompt == \E found \in BOOLEAN : GetPromptText(found)

SpecPrompt == InitPrompt /\ [][NextPrompt]_vars

\* ------------------------------------------------------------------ configuration specification
\* Keys with a default (define_defaults) and a key without one.
DefaultKeys == {"model", "temperature", "max_tokens"}
ConfigKeys == DefaultKeys \cup {"unknown"}

\* self.default_values
default_values == [key \in DefaultKeys |-> [from |-> "defaults", key |-> key]]

\* self.loaded_config for a file that sets the keys of `keys`.
Loaded(keys) == [key \in keys |-> [from |-> "file", key |-> key]]

\* Config.get_config_value: the value it returns or the exception it raises.
get_config_value(c) ==
    IF c.key \notin DOMAIN c.loaded_config \/ c.key \notin DOMAIN c.default_values
    THEN [c EXCEPT !.pc = "raised", !.error = "KeyError"]
    ELSE [c EXCEPT !.pc = "returned", !.value = c.loaded_config[c.key]]

InitConfig ==
    /\ _bot_config \in {c \in BotConfigs :
            c.enable_whitelist /\ ~c.stream_output /\ c.allowed_messages_per_interval = 1}
    /\ _user_info = <<>>
    /\ rate_log = <<>>
    /\ pipeline = "ResponseHandler"
    /\ testing = FALSE
    /\ handlers = [h \in Handlers |-> IdleHandler]
    /\ response = NoResponse
    /\ history = NoCall
    /\ request = NoCall
    /\ prompt = NoCall
    /\ loaded_config \in
          { [ loaded_config |-> Loaded(keys),
              default_values |-> default_values,
              key |-> key,
              pc |-> "loaded",
              error |-> "",
              value |-> [from |-> "", key |-> ""] ] :
            keys \in SUBSET ConfigKeys, key \in ConfigKeys }

\* A value is read from the configuration.
GetConfigValue ==
    /\ loaded_config.pc = "loaded"
    /\ loaded_config' = get_config_value(loaded_config)
    /\ UNCHANGED <<_bot_config, _user_info, rate_log, pipeline, testing, handlers, response,
                   history, request, prompt>>

NextConfig == GetConfigValue

SpecConfig == InitConfig /\ [][NextConfig]_vars

\* ------------------------------------------------------------------ input list specification
\* A message history: for each message, whether the bot wrote it.
MessageLists == UNION {[1..n -> BOOLEAN] : n \in 1..MaxMessages}

\* self.__config.random_additions
RandomAdditions == {<<>>, <<"addition1">>, <<"addition1", "addition2">>}

\* Input.from_instructions
from_instructions == [role |-> "developer", kind |-> "instructions", content |-> "instructions"]

\* Input.from_string(content, MessageRole.DEVELOPER)
from_string(kind, content) == [role |-> "developer", kind |-> kind, content |-> content]

\* Input.from_parsed_message for message i of the list: the entries of the
\* message, which build_inputs adds with extend.
from_parsed_message(messages, i) ==
    << [role |-> IF messages[i] THEN "assistant" ELSE "user", kind |-> "message", content |-> ToString(i)] >>

\* The entries of messages from..to, in order.
RECURSIVE replayed(_, _, _)
replayed(messages, from, to) ==
    IF from > to THEN <<>>
    ELSE from_parsed_message(messages, from) \o replayed(messages, from + 1, to)

\* A plausible slip: the developer entries are added after the last message.
build_inputs_appended(r, chance, choice) ==
    LET n == Len(r.messages)
        media == IF r.should_request_additions /\ r.post_media
                 THEN <<from_string("media", "media_instructions")>> ELSE <<>>
        addition == IF r.should_request_additions /\ r.random_additions # <<>> /\ chance
                    THEN <<from_string("addition",
                               r.random_additions[1 + (choice % Len(r.random_additions))])>>
                    ELSE <<>>
    IN  <<from_instructions>> \o replayed(r.messages, 1, n) \o media \o addition

\* ResponseBuilder.build_inputs. chance is the outcome of
\* random.random() < addition_chance, choice the draw of random.choice.
build_inputs(r, chance, choice) ==
    LET n == Len(r.messages)
        media == IF r.should_request_additions /\ r.post_media
                 THEN <<from_string("media", "media_instructions")>> ELSE <<>>
        addition == IF r.should_request_additions /\ r.random_additions # <<>> /\ chance
                    THEN <<from_string("addition",
                               r.random_additions[1 + (choice % Len(r.random_additions))])>>
                    ELSE <<>>
    IN  <<from_instructions>> \o replayed(r.messages, 1, n - 1) \o media \o addition
            \o from_parsed_message(r.messages, n)

InitInputs ==
    /\ _bot_config \in {c \in BotConfigs :
            c.enable_whitelist /\ ~c.stream_output /\ c.allowed_messages_per_interval = 1}
    /\ _user_info = <<>>
    /\ rate_log = <<>>
    /\ pipeline = "ResponseHandler"
    /\ testing = FALSE
    /\ handlers = [h \in Handlers |-> IdleHandler]
    /\ response = NoResponse
    /\ history = NoCall
    /\ request \in [ messages : MessageLists,
                      post_media : BOOLEAN,
                      random_additions : RandomAdditions,
                      should_request_additions : BOOLEAN,
                      pc : {"request"},
                      inputs : {<<>>} ]
    /\ prompt = NoCall
    /\ loaded_config = NoCall

\* The input list of the request is built.
BuildInputs(chance, choice) ==
    /\ request.pc = "request"
    /\ request' = [request EXCEPT !.pc = "inputs",
                                  !.inputs = build_inputs(request, chance, choice)]
    /\ UNCHANGED <<_bot_config, _user_info, rate_log, pipeline, testing, handlers, response,
                   history, prompt, loaded_config>>

NextInputs == \E chance \in BOOLEAN, choice \in {0, 1} : BuildInputs(chance, choice)

SpecInputs == InitInputs /\ [][NextInputs]_vars

\* ------------------------------------------------------------------ image specification
\* clamped_size, as __process_image is called and as __resize_image defaults it.
ClampedSize == 256

\* Widths and heights of images: small, around clamped_size, and large.
ImageEdges == {1, 2, 3, 100, 255, 256, 257, 300, 512, 1000}

\* Input.__resize_image / ResponseBuilder.__resize_image: the size handed to
\* image.resize. int(aspect_ratio * clamped_size) truncates the quotient.
resize_image(width, height, clamped_size) ==
    IF height > width
    THEN [width |-> (width * clamped_size) \div height, height |-> clamped_size]
    ELSE [width |-> clamped_size, height |-> (height * clamped_size) \div width]

InitImage ==
    /\ _bot_config \in {c \in BotConfigs :
            c.enable_whitelist /\ ~c.stream_output /\ c.allowed_messages_per_interval = 1}
    /\ _user_info = <<>>
    /\ rate_log = <<>>
    /\ pipeline = "ResponseHandler"
    /\ testing = FALSE
    /\ handlers = [h \in Handlers |-> IdleHandler]
    /\ response = NoResponse
    /\ history = NoCall
    /\ request \in [ width : ImageEdges, height : ImageEdges, pc : {"image"},
                      size : {[width |-> 0, height |-> 0]} ]
    /\ prompt = NoCall
    /\ loaded_config = NoCall

\* The image of a message is resized for the request.
ResizeImage ==
    /\ request.pc = "image"
    /\ request' = [request EXCEPT
            !.pc = "resized",
            !.size = resize_image(request.width, request.height, ClampedSize)]
    /\ UNCHANGED <<_bot_config, _user_info, rate_log, pipeline, testing, handlers, response,
                   history, prompt, loaded_config>>

NextImage == ResizeImage

SpecImage == InitImage /\ [][NextImage]_vars

\* ------------------------------------------------------------------ claims about the limiter
Min(a, b) == IF a <= b THEN a ELSE b
Max(a, b) == IF a >= b THEN a ELSE b

NonAdmin(author) == ~is_admin(_bot_config, author)
Allowed == _bot_config.allowed_messages_per_interval

\* The window of `author` after the first i entries of rate_log, told from the
\* created_at values alone: the first message of the author opens a window, and a
\* message created more than one interval after the window's first message opens
\* the next one. pos counts the messages of the window, adm the admitted ones,
\* lo..hi spans the created_at of the admitted ones; prev* describe the window before.
RECURSIVE WindowAt(_, _)
WindowAt(author, i) ==
    IF i = 0
    THEN [open |-> FALSE, start |-> 0, pos |-> 0, adm |-> 0, lo |-> 0, hi |-> 0,
          prevAdm |-> 0, prevLo |-> 0, prevHi |-> 0]
    ELSE LET w == WindowAt(author, i - 1)
             e == rate_log[i]
             a == IF e.admitted THEN 1 ELSE 0
         IN  IF e.author # author THEN w
             ELSE IF ~w.open \/ e.created_at - w.start > IntervalSecs(_bot_config)
             THEN [open |-> TRUE, start |-> e.created_at, pos |-> 1, adm |-> a,
                   lo |-> e.created_at, hi |-> e.created_at,
                   prevAdm |-> w.adm, prevLo |-> w.lo, prevHi |-> w.hi]
             ELSE [w EXCEPT !.pos = @ + 1,
                            !.adm = @ + a,
                            !.lo = IF e.admitted /\ w.adm > 0 THEN Min(@, e.created_at)
                                   ELSE IF e.admitted THEN e.created_at ELSE @,
                            !.hi = IF e.admitted /\ w.adm > 0 THEN Max(@, e.created_at)
                                   ELSE IF e.admitted THEN e.created_at ELSE @]

\* C1: with allowed_messages_per_interval = N >= 1, a message of a non-admin user
\* is admitted exactly when it is among the first N messages of its window (the
\* messages created no more than 60*timeout_interval_mins seconds after the
\* window's first message); the (N+1)-th and later ones are denied; the first
\* message created later than that opens a new window, is admitted and sets the
\* count to 1.
C1_WindowAdmission ==
    \A i \in 1..Len(rate_log) :
        LET e == rate_log[i]
            w == WindowAt(e.author, i)
        IN  (NonAdmin(e.author) /\ Allowed >= 1) =>
                /\ e.admitted <=> (w.pos <= Allowed)
                /\ e.after.messages_in_last_hour = w.pos
                /\ (w.pos = 1) => (e.admitted /\ e.after.messages_in_last_hour = 1)

\* A user used the whole allowance, was denied, and was admitted again by the
\* first message after the window.
C1_Witness ==
    /\ Allowed >= 1
    /\ \E i, j \in 1..Len(rate_log) :
        /\ i < j
        /\ rate_log[i].author = rate_log[j].author
        /\ NonAdmin(rate_log[i].author)
        /\ ~rate_log[i].admitted
        /\ WindowAt(rate_log[i].author, i).pos = Allowed + 1
        /\ rate_log[j].admitted
        /\ rate_log[j].before.messages_in_last_hour > Allowed
        /\ rate_log[j].after.messages_in_last_hour = 1

\* C2: a message of an admin is admitted whatever the counters are, and the check
\* leaves messages_in_last_hour and last_message_time of every user as they were
\* (an entry created for the admin holds the initial values).
C2_AdminFrame ==
    [][ (rate_log' # rate_log /\ is_admin(_bot_config, rate_log'[Len(rate_log')].author)) =>
            /\ rate_log'[Len(rate_log')].admitted
            /\ \A u \in DOMAIN _user_info : _user_info'[u] = _user_info[u]
            /\ \A u \in DOMAIN _user_info' \ DOMAIN _user_info : _user_info'[u] = UserInfo
      ]_vars

\* More admin messages than the allowance were all admitted while another user
\* holds a count.
C2_Witness ==
    /\ Cardinality({i \in 1..Len(rate_log) :
            is_admin(_bot_config, rate_log[i].author) /\ rate_log[i].admitted}) > Allowed
    /\ \E u \in DOMAIN _user_info : _user_info[u].messages_in_last_hour >= 1
    /\ is_admin(_bot_config, rate_log[Len(rate_log)].author)

\* A message that finds no prior state, or a window start more than one interval old.
Resets(e) ==
    \/ e.before.last_message_time = None
    \/ e.created_at - e.before.last_message_time > IntervalSecs(_bot_config)

\* C3 as stated: a message of a non-admin user that finds no prior state, or a
\* window start more than 60*timeout_interval_mins seconds old, resets the state
\* (count 1, window start = created_at) and is admitted, for every value of
\* allowed_messages_per_interval, 0 included.
C3_ResetAlwaysAdmits ==
    \A i \in 1..Len(rate_log) :
        LET e == rate_log[i]
        IN  (NonAdmin(e.author) /\ Resets(e)) =>
                /\ e.after = [messages_in_last_hour |-> 1, last_message_time |-> e.created_at]
                /\ e.admitted

\* C3 amended: such a message resets the state (count 1, window start =
\* created_at) and is admitted exactly when allowed_messages_per_interval >= 1.
C3_ResetAdmitsIffAllowed ==
    \A i \in 1..Len(rate_log) :
        LET e == rate_log[i]
        IN  (NonAdmin(e.author) /\ Resets(e)) =>
                /\ e.after = [messages_in_last_hour |-> 1, last_message_time |-> e.created_at]
                /\ e.admitted <=> (Allowed >= 1)

\* A denied user came back after the window and was reset and admitted.
C3_Witness ==
    \E i \in 1..Len(rate_log) :
        LET e == rate_log[i]
        IN  /\ NonAdmin(e.author)
            /\ e.before.last_message_time # None
            /\ e.before.messages_in_last_hour > Allowed
            /\ Resets(e)
            /\ e.admitted

\* C7: the limiter is a fixed window anchored at the first message of the window:
\* the stored window start is that message's created_at, never more than N
\* messages of one window are admitted, and never more than 2N of two
\* consecutive windows.
C7_FixedWindow ==
    \A i \in 1..Len(rate_log) :
        LET e == rate_log[i]
            w == WindowAt(e.author, i)
        IN  NonAdmin(e.author) =>
                /\ e.after.last_message_time = w.start
                /\ w.adm <= Allowed
                /\ w.adm + w.prevAdm <= 2 * Allowed

\* The boundary burst: 2N admitted messages of one user, N in each of two
\* consecutive windows, all created within one interval plus one second.
C7_Witness ==
    /\ Allowed = MaxAllowed
    /\ \E u \in DOMAIN _user_info :
        LET w == WindowAt(u, Len(rate_log))
        IN  /\ NonAdmin(u)
            /\ w.adm = Allowed
            /\ w.prevAdm = Allowed
            /\ Max(w.hi, w.prevHi) - Min(w.lo, w.prevLo) = IntervalSecs(_bot_config) + 1

\* C8: messages_in_last_hour of a non-admin user equals the number of the user's
\* rate-checked messages created between the stored window start and the window
\* start plus 60*timeout_interval_mins seconds, and so counts no message created
\* before the window start.
C8_CountIsCurrentWindow ==
    \A u \in DOMAIN _user_info :
        (NonAdmin(u) /\ _user_info[u].last_message_time # None) =>
            _user_info[u].messages_in_last_hour =
                Cardinality({i \in 1..Len(rate_log) :
                    /\ rate_log[i].author = u
                    /\ rate_log[i].created_at >= _user_info[u].last_message_time
                    /\ rate_log[i].created_at - _user_info[u].last_message_time
                           <= IntervalSecs(_bot_config)})

\* ------------------------------------------------------------------ claims about the pipeline
CallsOf(h, names) == {i \in 1..Len(handlers[h].calls) : handlers[h].calls[i].call \in names}
Carrying(h, contents) == {i \in 1..Len(handlers[h].calls) : handlers[h].calls[i].content \in contents}

\* C4: for a message the limiter denies, exactly one throttling notice is sent,
\* the generation service is never called, no response is delivered and no thread
\* is created.
C4_DeniedIsNotForwarded ==
    \A h \in Handlers :
        handlers[h].verdict = "denied" =>
            /\ Cardinality(Carrying(h, {"throttle"})) = 1
            /\ CallsOf(h, {"responses.create", "create_thread"}) = {}
            /\ Carrying(h, {"response", "partial"}) = {}

\* A message of a text channel that does not mention the bot, or whose channel
\* fails the allow-list check.
Unaddressed(m) ==
    /\ m # NoMessage
    /\ channel_type(m.channel) = "text"
    /\ ~(m.mentions_bot /\ can_message_channel(_bot_config, m.channel))

\* C5: a message of a public text channel that does not mention the bot, or whose
\* channel fails the allow-list check, is ignored entirely: no step of its handler
\* makes a call (outbound message or generation) or changes the rate state.
C5_UnaddressedIsIgnored ==
    [][ \A h \in Handlers :
            (Unaddressed(handlers'[h].msg) /\ handlers'[h] # handlers[h]) =>
                /\ handlers'[h].calls = <<>>
                /\ _user_info' = _user_info
      ]_vars

\* The handlers whose message of user u went through the limiter.
RateChecked(u) ==
    {h \in Handlers : handlers[h].msg.author = u /\ handlers[h].verdict # "unchecked"}

Running(h) == handlers[h].pc \notin {"idle", "done", "raised"}

\* C6: with GorkBot's rate_limit_check, handlers of one non-admin user that
\* interleave at their awaits lose no update: after k messages of one window the
\* user's single entry counts k, and at most allowed_messages_per_interval of them
\* were admitted.
C6_NoLostUpdate ==
    pipeline = "GorkBot" =>
        \A u \in Humans \ _bot_config.admins :
            LET k == Cardinality(RateChecked(u))
            IN  /\ (k = 0) <=> (u \notin DOMAIN _user_info)
                /\ k > 0 => _user_info[u].messages_in_last_hour = k
                /\ Cardinality({h \in RateChecked(u) : handlers[h].verdict = "admitted"})
                       <= _bot_config.allowed_messages_per_interval

\* Two handlers of the same user are in flight at once, the second one denied.
C6_Witness ==
    /\ pipeline = "GorkBot"
    /\ _bot_config.allowed_messages_per_interval = 1
    /\ \A h \in Handlers : handlers[h].msg.author = "alice" /\ Running(h)
    /\ handlers["h1"].verdict = "admitted"
    /\ handlers["h2"].verdict = "denied"
    /\ _user_info["alice"].messages_in_last_hour = 2

\* C9: a create-thread call is made for a message only if the message is in a
\* public text channel, is a reply whose referenced message was fetched, and the
\* referenced message was authored by the bot.
C9_ThreadOnlyForReplyToBotInChannel ==
    \A h \in Handlers :
        CallsOf(h, {"create_thread"}) # {} =>
            /\ channel_type(handlers[h].msg.channel) = "text"
            /\ handlers[h].msg.reference = "bot"
            /\ handlers[h].referenced_message = "bot"

\* C10: for a message of a public text channel that passes the mention and
\* allow-list checks and for which no thread is created (not a reply, or a reply
\* to a message the bot did not write), the response is delivered as a reply to
\* the triggering message, not as a plain channel send.
C10_DirectReplyWithoutThread ==
    \A h \in Handlers :
        LET m == handlers[h].msg
        IN  ( /\ m # NoMessage
              /\ channel_type(m.channel) = "text"
              /\ m.mentions_bot
              /\ can_message_channel(_bot_config, m.channel)
              /\ m.reference \in {"none", "human"} ) =>
                \A i \in Carrying(h, {"response", "partial"}) :
                    handlers[h].calls[i].call \in {"reply", "edit"}

LastOf(h) == handlers[h].calls[Len(handlers[h].calls)]

\* C11: every message of another user in a DM is processed, its response is
\* delivered with a plain channel send (never a reply) and no create-thread call
\* is made for it, also when the message replies to one of the bot's messages.
C11_DirectMessagePlainSend ==
    \A h \in Handlers :
        LET m == handlers[h].msg
        IN  (m # NoMessage /\ channel_type(m.channel) = "private" /\ m.author # BotUser) =>
                /\ handlers[h].pc = "done" => handlers[h].calls # <<>>
                /\ \A i \in Carrying(h, {"response", "partial"}) :
                       handlers[h].calls[i].call \in {"channel.send", "edit"}
                /\ CallsOf(h, {"create_thread"}) = {}

\* C12: a message in a thread is processed only if the bot owns the thread; its
\* response then goes into that thread (a send on the message's channel, or an
\* edit of it) and no thread is created. For a thread the bot does not own, no
\* step of the handler makes a call or changes the rate state.
C12_ThreadOnlyIfOwned ==
    [][ \A h \in Handlers :
            LET m == handlers'[h].msg
            IN  (m # NoMessage /\ is_thread(m.channel) /\ handlers'[h] # handlers[h]) =>
                    /\ \A i \in 1..Len(handlers'[h].calls) :
                           /\ handlers'[h].calls[i].call # "create_thread"
                           /\ handlers'[h].calls[i].content \in {"response", "partial"} =>
                                  handlers'[h].calls[i].call \in {"channel.send", "edit"}
                    /\ owner(m.channel) # BotUser =>
                           /\ handlers'[h].calls = <<>>
                           /\ _user_info' = _user_info
      ]_vars

\* C13: a message of a channel kind the pipeline does not support is dropped
\* silently, whatever the allow-list setting: no notice and no other call.
C13_UnsupportedIsSilent ==
    \A h \in Handlers :
        LET m == handlers[h].msg
        IN  (m # NoMessage /\ channel_type(m.channel) = "voice") => handlers[h].calls = <<>>

\* C14: in GorkBot, for an admitted message whose generation call raised, exactly
\* one generic notice is sent and the generation call is made once, in a text
\* channel, a DM and a bot-owned thread, with the allow-list on or off.
C14_GenerationFailureNotice ==
    \A h \in Handlers :
        (pipeline = "GorkBot" /\ Carrying(h, {"raised"}) # {}) =>
            /\ Cardinality(Carrying(h, {"error"})) = 1
            /\ Cardinality(CallsOf(h, {"responses.create"})) = 1

\* The frame of a failure: a step of one handler leaves every other handler and
\* every other user's rate state as they were.
OtherConversationsUnchanged(h) ==
    /\ \A g \in Handlers \ {h} : handlers'[g] = handlers[g]
    /\ \A u \in DOMAIN _user_info' :
           u # handlers'[h].msg.author =>
               u \in DOMAIN _user_info /\ _user_info'[u] = _user_info[u]

\* C15 as stated: a failure while handling one message never affects another
\* conversation, and the exception never escapes on_message.
C15_FailureNeverEscapes ==
    [][ \A h \in Handlers :
            (pipeline = "GorkBot" /\ handlers'[h] # handlers[h]) =>
                /\ OtherConversationsUnchanged(h)
                /\ handlers'[h].pc # "raised"
      ]_vars

\* C15 amended: a failure while handling one message never affects another
\* conversation; the exception escapes on_message only when the send of the
\* generic notice itself fails.
C15_FailureIsContained ==
    [][ \A h \in Handlers :
            (pipeline = "GorkBot" /\ handlers'[h] # handlers[h]) =>
                /\ OtherConversationsUnchanged(h)
                /\ handlers'[h].pc = "raised" =>
                       /\ handlers[h].pc = "sending"
                       /\ handlers[h].calls = handlers'[h].calls
                       /\ LastOf(h).content = "error"
      ]_vars

\* alice's generation failed and she got the notice, while bob's message, handled
\* at the same time, was answered and his count stands.
C15_Witness ==
    /\ pipeline = "GorkBot"
    /\ handlers["h1"].msg.author = "alice"
    /\ Carrying("h1", {"raised"}) # {}
    /\ Carrying("h1", {"error"}) # {}
    /\ handlers["h2"].msg.author = "bob"
    /\ handlers["h2"].pc = "done"
    /\ Carrying("h2", {"response"}) # {}
    /\ "bob" \in DOMAIN _user_info
    /\ _user_info["bob"].messages_in_last_hour = 1

\* The writes of a handler that carry streamed or final text.
Writes(h) == Carrying(h, {"partial", "response"})

\* C16: in streaming mode, once the stream has been consumed, the last write to
\* the outbound message carries the completion event's text, whatever time has
\* passed since the write before it.
C16_FinalTextIsCompletionText ==
    \A h \in Handlers :
        ( /\ pipeline = "GorkBot"
          /\ _bot_config.stream_output
          /\ handlers[h].stream = <<>>
          /\ Writes(h) # {} ) =>
            LET last == CHOOSE i \in Writes(h) : \A j \in Writes(h) : j <= i
            IN  handlers[h].calls[last].content = "response"

\* A delta was sent, and the completion text was written by an edit less than
\* stream_edit_interval_secs after it.
C16_Witness ==
    \E h \in Handlers :
        /\ _bot_config.stream_output
        /\ handlers[h].stream = <<>>
        /\ handlers[h].pc = "done"
        /\ Cardinality(Carrying(h, {"partial"})) = 1
        /\ LastOf(h) = [call |-> "edit", content |-> "response"]
        /\ handlers[h].now - handlers[h].last_edit < _bot_config.stream_edit_interval_secs

\* ------------------------------------------------------------------ claims about the post-processing
\* get_text of the Response class in use.
ShownText(class, text) ==
    IF class = "ai_service/types.py" THEN get_text(text) ELSE ai_service_get_text(text)

Trimmed(text) == text = <<>> \/ (Head(text) # " " /\ text[Len(text)] # " ")

\* C17: for every raw text, get_text returns it with every %%keyword%% directive
\* removed and with no leading or trailing whitespace, whether or not a media
\* URL was resolved.
C17_DirectivesRemovedAndTrimmed ==
    response.pc = "shown" =>
        /\ findall(response.shown, 1) = <<>>
        /\ Trimmed(response.shown)

\* C18: directive stripping is idempotent: get_text applied to its own output
\* returns that output unchanged.
C18_StrippingIsIdempotent ==
    response.pc = "shown" => ShownText(response.class, response.shown) = response.shown

SearchCalls == {i \in 1..Len(response.calls) : response.calls[i].call = "requests.get"}

C20_SearchNeverRaises ==
    SearchCalls # {} => response.pc # "raised"

\* ------------------------------------------------------------------ claims about streaming
StreamTexts == {"partial", "response", "overwritten", "response_2"}
SendCalls == {"reply", "thread.send", "channel.send"}

\* The calls of a handler that write streamed text, by their position in calls.
StreamWrites(h) == Carrying(h, StreamTexts)

Streaming(h) == pipeline = "GorkBot" /\ _bot_config.stream_output

\* The events of the stream a handler has handled, and those before the
\* completion event.
Events(h) == handlers[h].events
Accumulating(h) == {i \in 1..Len(Events(h)) : Events(h)[i].text.done = 0}
DeltasUpTo(h, i) == Cardinality({j \in 1..i : Events(h)[j].type = "delta"})

C26_EditIffAtLeastInterval ==
    \A h \in Handlers :
        Streaming(h) =>
            \A i \in Accumulating(h) :
                i > 1 =>
                    ( Events(h)[i].write = "edit"
                        <=> Events(h)[i].elapsed >= _bot_config.stream_edit_interval_secs )

\* C26: a delta after the first is written by an edit if and only if more than
\* stream_edit_interval_secs have passed since the last send or edit, so that
\* two consecutive writes made before the completion event are more than
\* stream_edit_interval_secs apart.
C26_EditIffMoreThanInterval ==
    \A h \in Handlers :
        Streaming(h) =>
            \A i \in Accumulating(h) :
                i > 1 =>
                    ( Events(h)[i].write = "edit"
                        <=> Events(h)[i].elapsed > _bot_config.stream_edit_interval_secs )

\* A delta arrived exactly stream_edit_interval_secs after the send and was
\* not written.
C26_Witness ==
    \E h \in Handlers :
        /\ Streaming(h)
        /\ \E i \in Accumulating(h) :
               /\ i > 1
               /\ Events(h)[i].elapsed = _bot_config.stream_edit_interval_secs
               /\ Events(h)[i].write = "none"
        /\ \E i \in Accumulating(h) : i > 1 /\ Events(h)[i].write = "edit"

\* Every write made before the completion event carries all deltas received so far.
WritesCarryAllDeltas ==
    \A h \in Handlers :
        Streaming(h) =>
            \A i \in Accumulating(h) :
                Events(h)[i].write # "none" => Events(h)[i].text.deltas = DeltasUpTo(h, i)

\* A step issues at most one write of a stream, and issues one while a write is
\* awaited only by handling the next event of the stream, after that write returned.
OneWriteAtATime ==
    \A h \in Handlers :
        LET before == Cardinality(StreamWrites(h))
            after == Cardinality(Carrying(h, StreamTexts))'
        IN  /\ after <= before + 1
            /\ (handlers[h].pc = "streaming" /\ after > before) =>
                   Len(handlers'[h].events) > Len(handlers[h].events)

\* C27: in streaming mode the writes to one outbound message are ordered: each
\* write made before the completion event carries the text of all deltas
\* received so far, so each extends the one before it, and a write is issued
\* only after the write before it returned.
C27_WritesInDeltaOrder == []WritesCarryAllDeltas /\ [][OneWriteAtATime]_vars

\* A delta was skipped, and the next edit carried it together with the delta
\* that caused the edit.
C27_Witness ==
    \E h \in Handlers :
        /\ Streaming(h)
        /\ \E i \in Accumulating(h) :
               /\ i > 2
               /\ Events(h)[i - 1].write = "none"
               /\ Events(h)[i].write = "edit"
               /\ Events(h)[i].text.deltas = 3

\* C28: once the completion event has been written to the outbound message, no
\* later event of the same stream (a late delta, a further completion event)
\* changes the message again.
C28_FinalizedIsFinal ==
    \A h \in Handlers :
        Streaming(h) =>
            \A i \in 1..Len(Events(h)) :
                i \notin Accumulating(h) =>
                    \A j \in (i + 1)..Len(Events(h)) : Events(h)[j].write = "none"

\* C29: in streaming mode, once a send or edit of the exchange has failed, no
\* edit is made for the exchange and the call is not made again: the only call
\* that can follow is the failure notice of on_message, a reply.
C29_NoEditAfterFailure ==
    \A h \in Handlers :
        (Streaming(h) /\ handlers[h].failed > 0) =>
            LET calls == handlers[h].calls
                f == handlers[h].failed
            IN  \A i \in (f + 1)..Len(calls) :
                    /\ calls[i].call # "edit"
                    /\ calls[i] # calls[f]
                    /\ calls[i].content \notin StreamTexts

\* An edit of a stream with events left failed, the notice was sent, and the
\* handler returned without reading the rest of the stream.
C29_Witness ==
    \E h \in Handlers :
        /\ Streaming(h)
        /\ handlers[h].pc = "done"
        /\ handlers[h].failed > 1
        /\ handlers[h].calls[handlers[h].failed].call = "edit"
        /\ handlers[h].stream # <<>>
        /\ LastOf(h) = [call |-> "reply", content |-> "error"]
        /\ Len(handlers[h].calls) = handlers[h].failed + 1

\* ------------------------------------------------------------------ claims about the event loop
\* C30: while one handler is inside its generation call, the other handler can
\* still take its next step: a new message can be dispatched to it, and a send
\* it awaits can return to it.
C30_HangBlocksOnlyItsExchange ==
    \A h, g \in Handlers :
        (h # g /\ handlers[h].pc = "generating") =>
            /\ Idle(g) => ENABLED (\E m \in MessagesOf(g) : Loop_on_message(g, m))
            /\ handlers[g].pc = "sending" => ENABLED Loop_Sent(g)
            /\ handlers[g].pc = "typing" => ENABLED Loop_handle_response(g)

\* ------------------------------------------------------------------ claims about the history
Chronological(seq) == \A i \in 1..(Len(seq) - 1) : seq[i] < seq[i + 1]
Window(seq) == \A i \in 1..(Len(seq) - 1) : seq[i + 1] = seq[i] + 1

\* C21: the message list handed to the generation request is in chronological
\* order with the triggering message last: the referenced message and the
\* triggering message for a reply, the history window oldest-first ending with
\* the triggering message for a thread, also when other messages arrive in the
\* channel between the event and the fetch.
C21_ChronologicalTriggerLast ==
    history.pc = "fetched" =>
        LET list == history.message_history
        IN  /\ list # <<>>
            /\ Chronological(list)
            /\ list[Len(list)] = history.message
            /\ (history.kind = "text" /\ history.reference # NoReference) =>
                   list = <<history.reference, history.message>>
            /\ history.kind = "thread" => Window(list)

\* ------------------------------------------------------------------ claims about the request
\* C22: a generation request made with an empty model name, or with an empty
\* identity and empty instruction text, fails with ValueError before the
\* generation service is called.
C22_EmptyConfigurationFails ==
    ( /\ request.pc \in {"raised", "called"}
      /\ \/ request.model = ""
         \/ request.identity = <<>> /\ request.instructions = <<>> ) =>
        /\ request.pc = "raised"
        /\ request.error = "ValueError"
        /\ request.calls = <<>>

\* ------------------------------------------------------------------ claims about the prompt text
Mentioned == {prompt.mentions[i] : i \in 1..Len(prompt.mentions)}

\* The tokens of a content that are text of the user: words and mentions.
IsText(token) == token \notin {" ", "url"}
TextOf(seq) == SelectSeq(seq, IsText)

\* A content with the mention token of every mentioned user replaced by the name.
Named(seq) ==
    [i \in 1..Len(seq) |->
        IF \E user \in Mentioned : seq[i] = MentionToken(user)
        THEN MentionName(CHOOSE user \in Mentioned : seq[i] = MentionToken(user))
        ELSE seq[i]]

\* What the class puts before the content.
Prefix == IF prompt.class = "message_parsing.py" THEN <<prompt.author, ":">> ELSE <<>>

IsTitles(token) == token = "(Linked YouTube video(s): title)"
NotTitles(token) == ~IsTitles(token)

\* C23 as stated: the prompt text is the content with the mention tokens of the
\* mentioned users replaced by @name and everything else unchanged.
C23_OnlyMentionsChange ==
    prompt.pc = "text" => prompt.text = Named(prompt.content)

\* C23: get_prompt_text replaces every mention token of a user in the mention
\* list by @name, so that no mention token of a mentioned user remains, and
\* keeps the words and the other mention tokens in their order; it also removes
\* the links its URL pattern matches and the surrounding whitespace, and in
\* message_parsing.py it puts "author:" first and the video titles last.
C23_MentionsSubstituted ==
    prompt.pc = "text" =>
        /\ \A i \in 1..Len(prompt.text) :
               \A user \in Mentioned : prompt.text[i] # MentionToken(user)
        /\ SelectSeq(TextOf(prompt.text), NotTitles) = Prefix \o Named(TextOf(prompt.content))
        /\ Trimmed(prompt.text)
        /\ (prompt.class = "response_handling/types.py" /\ prompt.content = ExampleContent
               /\ prompt.mentions = <<1>>) =>
                   prompt.text = <<"hey", " ", "@Alice", " ", "check", " ", "this">>

\* A content that mentions the same user twice and another user once, all in
\* the mention list: every token was replaced.
C23_Witness ==
    /\ prompt.pc = "text"
    /\ prompt.content = <<"<@1>", "<@2>", "<@1>">>
    /\ Mentioned = {1, 2}
    /\ TextOf(prompt.text) = Prefix \o <<"@Alice", "@Bob", "@Alice">>

\* ------------------------------------------------------------------ claims about the configuration
\* C24: get_config_value returns the loaded value of a key that the loaded file
\* sets, falls back to the default of a key that the file does not set, and
\* raises no error for a key that has a default.
C24_FallsBackToDefault ==
    LET c == loaded_config
    IN  c.pc \in {"returned", "raised"} =>
            /\ c.key \in DOMAIN c.loaded_config =>
                   (c.pc = "returned" /\ c.value = c.loaded_config[c.key])
            /\ (c.key \notin DOMAIN c.loaded_config /\ c.key \in DOMAIN c.default_values) =>
                   (c.pc = "returned" /\ c.value = c.default_values[c.key])
            /\ c.key \in DOMAIN c.default_values => c.pc = "returned"

\* ------------------------------------------------------------------ claims about several directives
\* C31: the directives of a text are tried in order of appearance up to the
\* first that resolves to a media URL: a directive without a local entry and
\* without a search result does not end the scan, so a text with a directive
\* that has a local entry never ends without media.
C31_ScanGoesOnAfterNoMedia ==
    response.pc \in {"built", "shown"} =>
        LET matches == findall(response.text, 1)
        IN  (\E i \in 1..Len(matches) : get_gif(response.gifs, matches[i]) # <<>>) =>
                response.gif # NoGif

\* ------------------------------------------------------------------ claims about the input list
\* The entries between the replayed history and the last entry.
Extras == SubSeq(request.inputs, Len(request.messages) + 1, Len(request.inputs) - 1)
OfKind(seq, kind) == {i \in 1..Len(seq) : seq[i].kind = kind}

C33_ResizeBounds ==
    request.pc = "resized" =>
        LET w == request.width
            h == request.height
            new == request.size
        IN  /\ Max(new.width, new.height) <= ClampedSize
            /\ new.width <= w /\ new.height <= h
            /\ new.width >= 1 /\ new.height >= 1
            /\ IF h > w
               THEN new.width * h <= w * new.height /\ w * new.height < (new.width + 1) * h
               ELSE new.height * w <= h * new.width /\ h * new.width < (new.height + 1) * w

\* ------------------------------------------------------------------ claims about denial
\* C34 as stated: a denied message of a non-admin user increments the count and
\* never moves the window start.
C34_DeniedNeverMovesWindow ==
    \A i \in 1..Len(rate_log) :
        LET e == rate_log[i]
        IN  (NonAdmin(e.author) /\ ~e.admitted) =>
                /\ e.after.last_message_time = e.before.last_message_time
                /\ e.after.messages_in_last_hour = e.before.messages_in_last_hour + 1

\* C34: with allowed_messages_per_interval >= 1 a denied message increments
\* the count and does not move the window start, and the first message created
\* more than 60*timeout_interval_mins seconds after the window start is
\* admitted, however many messages were denied before it; with an allowance of
\* 0 the message that opens a window is denied and sets the window start.
C34_DenialKeepsWindow ==
    \A i \in 1..Len(rate_log) :
        LET e == rate_log[i]
            w == WindowAt(e.author, i - 1)
        IN  NonAdmin(e.author) =>
                /\ (~e.admitted /\ ~Resets(e)) =>
                       /\ e.after.last_message_time = e.before.last_message_time
                       /\ e.after.last_message_time = w.start
                       /\ e.after.messages_in_last_hour = e.before.messages_in_last_hour + 1
                /\ (~e.admitted /\ Resets(e)) =>
                       (Allowed = 0 /\ e.after.last_message_time = e.created_at)
                /\ (Allowed >= 1 /\ w.open /\ e.created_at - w.start > IntervalSecs(_bot_config)) =>
                       e.admitted

\* A user was denied twice in one window and admitted by the first message
\* after the window, less than one interval after the last denial.
C34_Witness ==
    \E i, j, k \in 1..Len(rate_log) :
        /\ i < j /\ j < k
        /\ rate_log[i].author = rate_log[k].author
        /\ rate_log[j].author = rate_log[k].author
        /\ NonAdmin(rate_log[k].author)
        /\ ~rate_log[i].admitted /\ ~rate_log[j].admitted
        /\ rate_log[j].created_at > WindowAt(rate_log[j].author, j).start
        /\ rate_log[k].admitted
        /\ Resets(rate_log[k])
        /\ rate_log[k].created_at - rate_log[j].created_at < IntervalSecs(_bot_config)

Outbound == {"reply", "channel.send", "thread.send", "edit"}

\* C36: when a thread was created for the triggering message, no outbound
\* message of the exchange was sent before create_thread returned, and the
\* response is sent into the thread and edited there.
C36_ThreadBeforeFirstMessage ==
    \A h \in Handlers :
        LET s == handlers[h]
        IN  \A i \in 1..Len(s.calls) :
                (s.calls[i].call = "create_thread" /\ s.thread) =>
                    /\ \A j \in 1..(i - 1) : s.calls[j].call \notin Outbound
                    /\ \A j \in (i + 1)..Len(s.calls) :
                           (s.calls[j].call \in Outbound /\ s.calls[j].content # "error") =>
                               s.calls[j].call \in {"thread.send", "edit"}

\* C37: when the generation call of a message fails, no create-thread call has
\* been made for that message, in streaming mode and in non-streaming mode.
C37_NoThreadBeforeGeneration ==
    \A h \in Handlers :
        LET s == handlers[h]
        IN  (\E i \in 1..Len(s.calls) :
                 s.calls[i].call = "responses.create" /\ s.calls[i].content = "raised") =>
                \A j \in 1..Len(s.calls) : s.calls[j].call # "create_thread"

\* ------------------------------------------------------------------ claims about failures and the quota
\* The generation call of the handler's message raised, or one of its platform
\* calls did.
FailedExchange(h) == handlers[h].failed # 0 \/ Carrying(h, {"raised"}) # {}

\* C38: in GorkBot a message the limiter admitted and whose generation or
\* delivery then failed still counts: the user's entry counts every message of
\* the user the limiter has seen, the failed one included, and the step in which
\* the failure happens changes no count and no window start.
C38_FailureKeepsCount ==
    /\ [](pipeline = "GorkBot" =>
            \A h \in Handlers :
                LET u == handlers[h].msg.author
                IN  (handlers[h].verdict = "admitted" /\ NonAdmin(u) /\ FailedExchange(h)) =>
                        /\ u \in DOMAIN _user_info
                        /\ _user_info[u].messages_in_last_hour = Cardinality(RateChecked(u))
                        /\ _user_info[u].last_message_time = handlers[h].msg.created_at)
    /\ [][ \A h \in Handlers :
               (pipeline = "GorkBot" /\ ~FailedExchange(h) /\ FailedExchange(h)') =>
                   _user_info' = _user_info
         ]_vars

\* alice's admitted message failed in the generation call and bob's in the
\* delivery; both have their count of 1.
C38_Witness ==
    /\ pipeline = "GorkBot"
    /\ _bot_config.allowed_messages_per_interval = 1
    /\ handlers["h1"].msg.author = "alice"
    /\ handlers["h1"].verdict = "admitted"
    /\ Carrying("h1", {"raised"}) # {}
    /\ handlers["h2"].msg.author = "bob"
    /\ handlers["h2"].verdict = "admitted"
    /\ handlers["h2"].failed # 0
    /\ _user_info["alice"].messages_in_last_hour = 1
    /\ _user_info["bob"].messages_in_last_hour = 1

\* ------------------------------------------------------------------ claims about the channel kinds
\* The channel kinds the dispatchers have a case for.
DispatchedKinds == {"text", "private", "public_thread", "private_thread"}

\* The constructor of ParsedMessage raised for the handler's message: nothing
\* was checked and nothing was called.
Rejected(h) ==
    /\ handlers[h].pc = "raised"
    /\ handlers[h].verdict = "unchecked"
    /\ handlers[h].calls = <<>>

\* C39: a message in a channel of a kind the dispatcher has a case for is never
\* rejected by the constructor of ParsedMessage; a message in a private thread
\* the bot owns is normalized.
C39_DispatchedKindsAreParsed ==
    \A h \in Handlers :
        (/\ handlers[h].msg # NoMessage
         /\ channel_type(handlers[h].msg.channel) \in DispatchedKinds) =>
            ~Rejected(h)

\* ------------------------------------------------------------------ claims about the outcome of an exchange
\* The calls of a handler that deliver response text, and its generic notices.
Delivered(h) == {i \in Carrying(h, StreamTexts) : handlers[h].calls[i].call \in Outbound}
Notices(h) == Carrying(h, {"error"})

\* C40: in GorkBot a message the limiter admitted, all of whose calls returned,
\* ends either with a response delivered or with one generic notice, never with
\* both and never with nothing sent, also when the event stream has no text event.
C40_ResponseOrNotice ==
    \A h \in Handlers :
        (/\ pipeline = "GorkBot"
         /\ ~testing
         /\ handlers[h].verdict = "admitted"
         /\ handlers[h].pc = "done"
         /\ handlers[h].failed = 0) =>
            /\ (Delivered(h) # {}) # (Notices(h) # {})
            /\ Cardinality(Notices(h)) <= 1

====
